---- MODULE Spec2Model ----
(***************************************************************************)
(* A model of java.util.zip.Inflater (the decompression session) and of    *)
(* GcPauseTimeInfo (the pause interval).                                   *)
(*                                                                         *)
(* Spec         one caller; every public method is one atomic step.        *)
(* SpecLive     Spec with a Cleaner thread that does run.                  *)
(* SpecConc     several threads; every method is cut at its monitor        *)
(*              enter, at each field access and at its monitor exit.       *)
(* SpecConcFair SpecConc under a fair scheduler and a fair monitor.        *)
(* SpecRound    one caller decompresses a whole compressed stream.         *)
(* SpecTotals   the two totals as 64-bit longs, and their int casts.       *)
(* SpecPause    GcPauseTimeInfo, in a build with and without ASSERT.       *)
(* SpecNio      one caller with heap and direct buffers: the access        *)
(*              sessions of the direct ones.                               *)
(*                                                                         *)
(* The native zlib codec, the Cleaner and the caller's buffers are the     *)
(* environment: the codec answers any amounts within what it was offered.  *)
(* A caller's array is modelled by its length, a ByteBuffer by its         *)
(* position and limit; byte contents are modelled in SpecRound only.       *)
(* Every array has MaxLen bytes and every buffer the limit MaxLen.  The    *)
(* caller passes no null argument and never passes the session's current   *)
(* input buffer as output or dictionary buffer.  The codec signals a       *)
(* dictionary only on a call that produced nothing and did not end the     *)
(* stream.                                                                 *)
(***************************************************************************)
EXTENDS Integers, Sequences, FiniteSets, TLC

\* ------------------------------------------------------------- bounds
\* Largest array length and largest buffer limit a caller uses.
MaxLen == 2
\* Cap of the two running totals (the guards of inflate stop there).
MaxTotal == 2
\* How many calls the threads of SpecConc start in all.
MaxCalls == 3

\* ------------------------------------------------------------- state
VARIABLES
    address,        \* InflaterZStreamRef.address: 0 once released
    input,          \* Inflater.input: the ByteBuffer view, or null
    inputArray,     \* Inflater.inputArray: the byte[] view, or null
    inputPos,       \* Inflater.inputPos
    inputLim,       \* Inflater.inputLim
    finished,       \* Inflater.finished
    pendingOutput,  \* Inflater.pendingOutput
    needDict,       \* Inflater.needDict
    bytesRead,      \* Inflater.bytesRead
    bytesWritten,   \* Inflater.bytesWritten
    inputConsumed,  \* Inflater.inputConsumed (JNI out-parameter)
    outputConsumed, \* Inflater.outputConsumed (JNI out-parameter)
    reachable,      \* the owner is still strongly reachable
    endCalls,       \* how many times the native end(addr) has run
    badHandleCall,  \* some native call got a zero or released handle
    sumRead,        \* input the codec reported consumed since init/reset
    sumWritten,     \* output the codec reported produced since init/reset
    last,           \* the most recent completed call (Spec)
    feeds,          \* calls of the native inflate made by that call (Spec)
    pc,             \* per thread: where it stands in its call (SpecConc)
    lock,           \* owner of the zsRef monitor, 0 when free (SpecConc)
    local,          \* per thread: the locals of its call (SpecConc)
    seen,           \* per thread: what getRemaining() was between complete
                    \* calls, since the thread's running query began (SpecConc)
    calls,          \* calls started so far (SpecConc)
    original,       \* the bytes the caller compressed (SpecRound)
    supplied,       \* compressed bytes the caller has passed to setInput
    inputBase,      \* where in the compressed bytes inputArray[0] lies
    collected,      \* the bytes the caller has taken from its output arrays
    zstream,        \* the codec's place in the compressed stream
    bytesReadBits,  \* Inflater.bytesRead as the bits of its long (SpecTotals)
    bytesWrittenBits, \* Inflater.bytesWritten as the bits of its long
    _start_time,    \* GcPauseTimeInfo::_start_time (SpecPause)
    _duration,      \* GcPauseTimeInfo::_duration
    _end_of_last_pause, \* GcPauseTimeInfo::_end_of_last_pause
    object,         \* the GcPauseTimeInfo: "none", "live", or "aborted" when
                    \* an assert of its constructor stopped the VM
    debugBuild,     \* the build defines ASSERT
    given,          \* the constructor's arguments, until a setter is called
    mutated,        \* a setter has been called
    pauseCall,      \* the most recent call on the GcPauseTimeInfo
    sessions,       \* the buffers whose access session is held (SpecNio)
    events,         \* what the most recent call did with NIO_ACCESS and
                    \* the codec, in order
    direct          \* the buffers of that call that are direct

sessVars == <<address, input, inputArray, inputPos, inputLim, finished,
              pendingOutput, needDict, bytesRead, bytesWritten,
              inputConsumed, outputConsumed>>
envVars == <<reachable, endCalls, badHandleCall, sumRead, sumWritten>>
concVars == <<pc, lock, local, seen, calls>>
roundVars == <<original, supplied, inputBase, collected, zstream>>
\* The variables of the specifications of one operation or one caller.
totalVars == <<bytesReadBits, bytesWrittenBits>>
pauseVars == <<_start_time, _duration, _end_of_last_pause, object, debugBuild,
               given, mutated, pauseCall>>
nioVars == <<sessions, events, direct>>
restVars == <<roundVars, totalVars, pauseVars, feeds, nioVars>>
vars == <<sessVars, envVars, last, concVars, restVars>>

\* ------------------------------------------------------------- values
\* The handle init(nowrap) returns.
Handle == 1

NullBuffer == [ref |-> "null", pos |-> 0, lim |-> 0]
\* ZipUtils.defaultBuf: an empty heap buffer.
defaultBuf == [ref |-> "defaultBuf", pos |-> 0, lim |-> 0]
NullArray == [isNull |-> TRUE, length |-> 0]

ByteArray(n) == [isNull |-> FALSE, length |-> n]
ByteBuffer(p, l) == [ref |-> "buffer", pos |-> p, lim |-> l]

\* The arrays and buffers a caller may pass, and the offsets and lengths it
\* may pass with an array.
Arrays == {ByteArray(MaxLen)}
Buffers == {ByteBuffer(p, MaxLen) : p \in 0..MaxLen}
\* The buffers a caller may pass as a dictionary.
DictionaryBuffers ==
    {ByteBuffer(r[1], r[2]) : r \in {q \in (0..MaxLen) \X (0..MaxLen) : q[1] <= q[2]}}
Offsets == (0 - 1)..MaxLen
Lengths == (0 - 1)..(MaxLen + 1)

Max(a, b) == IF a >= b THEN a ELSE b

\* A range check that forgets the end of the array.
checkFromIndexSize_noUpper(off, len, length) == off >= 0 /\ len >= 0

\* Preconditions.checkFromIndexSize(off, len, length): TRUE when in range.
checkFromIndexSize(off, len, length) ==
    off >= 0 /\ len >= 0 /\ len <= length - off

\* ------------------------------------------------------------- codec
\* The long the native inflate returns, as the set of its one-bits:
\* bits 0..30 the input consumed, 31..61 the output produced, 62 the
\* end-of-stream flag, 63 the dictionary flag.
RECURSIVE Pow2Of(_)
Pow2Of(i) == IF i = 0 THEN 1 ELSE 2 * Pow2Of(i - 1)
Pow2Table == [i \in 0..30 |-> Pow2Of(i)]
Pow2(i) == Pow2Table[i]

BitsOf(n, base) == {base + i : i \in {j \in 0..30 : (n \div Pow2(j)) % 2 = 1}}

PackResult(read, written, fin, dict) ==
    BitsOf(read, 0) \cup BitsOf(written, 31)
        \cup (IF fin THEN {62} ELSE {}) \cup (IF dict THEN {63} ELSE {})

RECURSIVE SumPow2(_, _)
SumPow2(S, base) ==
    IF S = {} THEN 0
    ELSE LET b == CHOOSE x \in S : TRUE
         IN Pow2(b - base) + SumPow2(S \ {b}, base)

\* (int) (result >>> shift & 0x7fff_ffffL)
Field31(result, shift) ==
    SumPow2({b \in result : b >= shift /\ b <= shift + 30}, shift)

\* (result >>> bit & 1) != 0
FlagBit(result, bit) == bit \in result

\* A codec that may report one byte more consumed than it was offered.
CodecAnswersOf_overReports(inLen, outLen) ==
    {[dfe |-> FALSE, result |-> PackResult(r, w, f, FALSE), used |-> r, made |-> w,
      fin |-> f, dict |-> FALSE]
        : r \in 0..(inLen + 1), w \in 0..outLen, f \in BOOLEAN}
    \cup
    {[dfe |-> TRUE, result |-> {}, used |-> c, made |-> p,
      fin |-> FALSE, dict |-> FALSE]
        : c \in 0..(inLen + 1), p \in 0..outLen}

\* What one native inflate call may answer when offered inLen input bytes
\* and outLen bytes of output space: a packed result, or a
\* DataFormatException after storing the amounts used so far in
\* inputConsumed and outputConsumed.  used, made, fin and dict are what
\* zlib did: the bytes it consumed and produced, Z_STREAM_END, Z_NEED_DICT.
CodecAnswersOf(inLen, outLen) ==
    {[dfe |-> FALSE, result |-> PackResult(r, w, f, FALSE), used |-> r, made |-> w,
      fin |-> f, dict |-> FALSE]
        : r \in 0..inLen, w \in 0..outLen, f \in BOOLEAN}
    \cup
    {[dfe |-> FALSE, result |-> PackResult(r, 0, FALSE, TRUE), used |-> r, made |-> 0,
      fin |-> FALSE, dict |-> TRUE]
        : r \in 0..inLen}
    \cup
    {[dfe |-> TRUE, result |-> {}, used |-> c, made |-> p,
      fin |-> FALSE, dict |-> FALSE]
        : c \in 0..inLen, p \in 0..outLen}
CodecTable == [i \in 0..MaxLen, o \in 0..MaxLen |-> CodecAnswersOf(i, o)]
CodecAnswers(inLen, outLen) == CodecTable[inLen, outLen]

\* ------------------------------------------------------------- helpers
\* The session's fields, as one value.
Session ==
    [address |-> address, input |-> input, inputArray |-> inputArray,
     inputPos |-> inputPos, inputLim |-> inputLim, finished |-> finished,
     pendingOutput |-> pendingOutput, needDict |-> needDict,
     bytesRead |-> bytesRead, bytesWritten |-> bytesWritten,
     inputConsumed |-> inputConsumed, outputConsumed |-> outputConsumed]

\* The record of a completed call: its name, how it ended ("ok" or the
\* exception), the output length asked for, the amounts the codec reported,
\* what it returned, the caller's buffer position before and after,
\* whether the codec was called, and whether the codec signalled the end of
\* the stream or the need of a dictionary.
Call(op, outcome, len, used, made, retInt, retBool, argPos0, argPos1, native) ==
    [op |-> op, outcome |-> outcome, len |-> len, used |-> used, made |-> made,
     retInt |-> retInt, retBool |-> retBool,
     argPos0 |-> argPos0, argPos1 |-> argPos1, native |-> native,
     fin |-> FALSE, dict |-> FALSE, argLim |-> 0, argOff |-> 0]

\* The record of an inflate call that got the answer ans from the codec.
InflateCall(op, outcome, len, ans, retInt, argPos0, argPos1) ==
    [op |-> op, outcome |-> outcome, len |-> len, used |-> ans.used,
     made |-> ans.made, retInt |-> retInt, retBool |-> FALSE,
     argPos0 |-> argPos0, argPos1 |-> argPos1, native |-> TRUE,
     fin |-> ans.fin, dict |-> ans.dict, argLim |-> 0, argOff |-> 0]

\* The record of a setDictionary(ByteBuffer) call: the buffer's position
\* before and after, its limit, and the bytes handed to the codec.
DictionaryCall(outcome, position, newPosition, limit, handed, native) ==
    [op |-> "setDictionary(ByteBuffer)", outcome |-> outcome, len |-> 0,
     used |-> handed, made |-> 0, retInt |-> 0, retBool |-> FALSE,
     argPos0 |-> position, argPos1 |-> newPosition, native |-> native,
     fin |-> FALSE, dict |-> FALSE, argLim |-> limit, argOff |-> 0]

\* No call is in progress and the caller has taken the last call's result.
NoCall == [op |-> "none", outcome |-> "ok", len |-> 0, used |-> 0, made |-> 0,
           retInt |-> 0, retBool |-> FALSE, argPos0 |-> 0, argPos1 |-> 0,
           native |-> FALSE, fin |-> FALSE, dict |-> FALSE, argLim |-> 0, argOff |-> 0]

\* The caller holds a reference to the session and is free to call it.
Callable == reachable /\ last = NoCall

\* The arguments of an array-range call that checkFromIndexSize rejects,
\* and those it accepts.
BadRanges(arr) ==
    {r \in Offsets \X Lengths : ~checkFromIndexSize(r[1], r[2], arr.length)}
GoodRanges(arr) ==
    {r \in Offsets \X Lengths : checkFromIndexSize(r[1], r[2], arr.length)}

\* A call that throws before it touches anything.
Throw(op, outcome, argPos) ==
    /\ last' = Call(op, outcome, 0, 0, 0, 0, FALSE, argPos, argPos, FALSE)
    /\ UNCHANGED <<sessVars, envVars, concVars, restVars>>

\* The record c of a call on the range r = <<off, len>> of an array.
OnRange(c, r) == [c EXCEPT !.argOff = r[1], !.len = r[2]]

\* An array-range call that throws before it touches anything.
ThrowRange(op, outcome, r) ==
    /\ last' = OnRange(Call(op, outcome, 0, 0, 0, 0, FALSE, 0, 0, FALSE), r)
    /\ UNCHANGED <<sessVars, envVars, concVars, restVars>>

\* A call that only returns a value.
Return(op, retInt, retBool) ==
    /\ last' = Call(op, "ok", 0, 0, 0, retInt, retBool, 0, 0, FALSE)
    /\ UNCHANGED <<sessVars, envVars, concVars, restVars>>

\* A native call with handle addr: the handle must be live.
NativeCall(addr) ==
    badHandleCall' = (badHandleCall \/ addr = 0 \/ endCalls > 0)

\* ensureOpen: FALSE is the IllegalStateException.
ensureOpen_never(addr) == TRUE
ensureOpen(addr) == addr # 0

\* getRemaining's value.
getRemainingOf(in, pos, lim) ==
    IF in.ref = "null" THEN lim - pos ELSE in.lim - in.pos

\* needsInput's value, looking at the array view only.
needsInputOf_arrayOnly(in, pos, lim) == lim = pos

\* needsInput's value.
needsInputOf(in, pos, lim) ==
    IF in.ref = "null" THEN lim = pos ELSE ~(in.pos < in.lim)

\* The input offered to the codec: inputLim - inputPos of the array view,
\* Math.max(input.limit() - inputPos, 0) of the buffer view.
inputLenOf(in, pos, lim) ==
    IF in.ref = "null" THEN lim - pos ELSE Max(in.lim - in.pos, 0)

\* ------------------------------------------------------------- setInput
\* setInput(byte[], int, int) that also restarts the stream state.
setInputArray_restarts ==
    /\ Callable
    /\ \E arr \in Arrays :
        \/ \E r \in BadRanges(arr) :
            ThrowRange("setInput(byte[])", "AIOOBE", r)
        \/ \E off \in Offsets, len \in Lengths :
            /\ checkFromIndexSize(off, len, arr.length)
            /\ input' = NullBuffer
            /\ inputArray' = arr
            /\ inputPos' = off
            /\ inputLim' = off + len
            /\ finished' = FALSE
            /\ needDict' = FALSE
            /\ pendingOutput' = FALSE
            /\ last' = OnRange(Call("setInput(byte[])", "ok", 0, 0, 0, 0, FALSE,
                                    0, 0, FALSE), <<off, len>>)
            /\ UNCHANGED <<address, bytesRead,
                           bytesWritten, inputConsumed, outputConsumed,
                           envVars, concVars, restVars>>

\* setInput(byte[], int, int) without its "this.input = null".
setInputArray_keepBuffer ==
    /\ Callable
    /\ \E arr \in Arrays :
        \/ \E r \in BadRanges(arr) :
            ThrowRange("setInput(byte[])", "AIOOBE", r)
        \/ \E off \in Offsets, len \in Lengths :
            /\ checkFromIndexSize(off, len, arr.length)
            /\ inputArray' = arr
            /\ inputPos' = off
            /\ inputLim' = off + len
            /\ last' = OnRange(Call("setInput(byte[])", "ok", 0, 0, 0, 0, FALSE,
                                    0, 0, FALSE), <<off, len>>)
            /\ UNCHANGED <<address, input, finished, pendingOutput, needDict,
                           bytesRead, bytesWritten, inputConsumed,
                           outputConsumed, envVars, concVars, restVars>>

\* setInput(byte[] input, int off, int len); setInput(byte[]) is off = 0 and
\* len = input.length.
setInputArray ==
    /\ Callable
    /\ \E arr \in Arrays :
        \/ \E r \in BadRanges(arr) :
            ThrowRange("setInput(byte[])", "AIOOBE", r)
        \/ \E off \in Offsets, len \in Lengths :
            /\ checkFromIndexSize(off, len, arr.length)
            /\ input' = NullBuffer
            /\ inputArray' = arr
            /\ inputPos' = off
            /\ inputLim' = off + len
            /\ last' = OnRange(Call("setInput(byte[])", "ok", 0, 0, 0, 0, FALSE,
                                    0, 0, FALSE), <<off, len>>)
            /\ UNCHANGED <<address, finished, pendingOutput, needDict, bytesRead,
                           bytesWritten, inputConsumed, outputConsumed,
                           envVars, concVars, restVars>>

\* setInput(ByteBuffer) without its "this.inputArray = null".
setInputBuffer_keepArray ==
    /\ Callable
    /\ \E buf \in Buffers :
        /\ input' = buf
        /\ last' = Call("setInput(ByteBuffer)", "ok", 0, 0, 0, 0, FALSE,
                        buf.pos, buf.pos, FALSE)
        /\ UNCHANGED <<address, inputArray, inputPos, inputLim, finished,
                       pendingOutput, needDict, bytesRead, bytesWritten,
                       inputConsumed, outputConsumed, envVars, concVars, restVars>>

\* setInput(ByteBuffer input)
setInputBuffer ==
    /\ Callable
    /\ \E buf \in Buffers :
        /\ input' = buf
        /\ inputArray' = NullArray
        /\ last' = Call("setInput(ByteBuffer)", "ok", 0, 0, 0, 0, FALSE,
                        buf.pos, buf.pos, FALSE)
        /\ UNCHANGED <<address, inputPos, inputLim, finished, pendingOutput,
                       needDict, bytesRead, bytesWritten, inputConsumed,
                       outputConsumed, envVars, concVars, restVars>>

\* ------------------------------------------------------------- setDictionary
\* The native setDictionary either takes the bytes or rejects them with an
\* IllegalArgumentException.
DictionaryAnswers == {"ok", "IAE"}

\* setDictionary(byte[] dictionary, int off, int len); setDictionary(byte[])
\* is off = 0 and len = dictionary.length.
setDictionaryArray ==
    /\ Callable
    /\ \E arr \in Arrays :
        \/ \E r \in BadRanges(arr) :
            ThrowRange("setDictionary(byte[])", "AIOOBE", r)
        \/ \E r \in GoodRanges(arr) :
           IF ~ensureOpen(address)
           THEN ThrowRange("setDictionary(byte[])", "ISE", r)
           ELSE \E ans \in DictionaryAnswers :
                    /\ NativeCall(address)
                    /\ needDict' = IF ans = "ok" THEN FALSE ELSE needDict
                    /\ last' = OnRange(Call("setDictionary(byte[])", ans, 0, 0, 0, 0,
                                            FALSE, 0, 0, TRUE), r)
                    /\ UNCHANGED <<address, input, inputArray, inputPos, inputLim,
                                   finished, pendingOutput, bytesRead, bytesWritten,
                                   inputConsumed, outputConsumed, reachable, endCalls,
                                   sumRead, sumWritten, concVars, restVars>>

\* The whole of the buffer up to its limit, taken from the position on.
dictionaryRemaining_limit(position, limit) == limit

\* int remaining = Math.max(dictionary.limit() - position, 0)
dictionaryRemaining(position, limit) == Max(limit - position, 0)

\* setDictionary(ByteBuffer) without its "needDict = false".
setDictionaryBuffer_keepsFlag ==
    /\ Callable
    /\ \E dictionary \in DictionaryBuffers :
        LET position == dictionary.pos
            remaining == dictionaryRemaining(position, dictionary.lim)
        IN IF ~ensureOpen(address)
           THEN /\ last' = DictionaryCall("ISE", position, position,
                                          dictionary.lim, 0, FALSE)
                /\ UNCHANGED <<sessVars, envVars, concVars, restVars>>
           ELSE \E ans \in DictionaryAnswers :
                 /\ NativeCall(address)
                 /\ last' = DictionaryCall(ans, position,
                                           IF ans = "ok" THEN position + remaining
                                           ELSE position,
                                           dictionary.lim, remaining, TRUE)
                 /\ UNCHANGED <<address, input, inputArray, inputPos, inputLim,
                                finished, pendingOutput, needDict, bytesRead,
                                bytesWritten, inputConsumed, outputConsumed,
                                reachable, endCalls, sumRead, sumWritten, concVars, restVars>>

\* setDictionary(ByteBuffer dictionary)
setDictionaryBuffer ==
    /\ Callable
    /\ \E dictionary \in DictionaryBuffers :
        LET position == dictionary.pos
            remaining == dictionaryRemaining(position, dictionary.lim)
        IN IF ~ensureOpen(address)
           THEN /\ last' = DictionaryCall("ISE", position, position,
                                          dictionary.lim, 0, FALSE)
                /\ UNCHANGED <<sessVars, envVars, concVars, restVars>>
           ELSE \E ans \in DictionaryAnswers :
                 /\ NativeCall(address)
                 /\ needDict' = IF ans = "ok" THEN FALSE ELSE needDict
                 /\ last' = DictionaryCall(ans, position,
                                           IF ans = "ok" THEN position + remaining
                                           ELSE position,
                                           dictionary.lim, remaining, TRUE)
                 /\ UNCHANGED <<address, input, inputArray, inputPos, inputLim,
                                finished, pendingOutput, bytesRead, bytesWritten,
                                inputConsumed, outputConsumed, reachable, endCalls,
                                sumRead, sumWritten, concVars, restVars>>

\* ------------------------------------------------------------- accessors
getRemaining ==
    /\ Callable
    /\ Return("getRemaining", getRemainingOf(input, inputPos, inputLim), FALSE)

needsInput ==
    /\ Callable
    /\ Return("needsInput", 0, needsInputOf(input, inputPos, inputLim))

needsDictionary ==
    /\ Callable
    /\ Return("needsDictionary", 0, needDict)

finishedQuery ==
    /\ Callable
    /\ Return("finished", 0, finished)

hasPendingOutput ==
    /\ Callable
    /\ Return("hasPendingOutput", 0, pendingOutput)

\* ------------------------------------------------------------- inflate
\* this.inputPos = inputPos + inputConsumed, input.position(inputPos + inputConsumed)
inflateFailPosition(pos, consumed) == pos + consumed

\* bytesRead += inputConsumed, bytesWritten += written on the failure path
inflateFailTotal_dropped(total, n) == total
inflateFailTotal_assigned(total, n) == n
inflateFailTotal(total, n) == total + n

\* The running total replaced by the amount of the call.
inflateTotal_assigned(total, n) == n

\* bytesWritten += written, bytesRead += read on the normal path
inflateTotal(total, n) == total + n

\* The input consumed read from the field of the output produced.
resultRead_fromWritten(result) == Field31(result, 31)

\* int read = (int) (result & 0x7fff_ffffL)
resultRead(result) == Field31(result, 0)

\* int written = (int) (result >>> 31 & 0x7fff_ffffL)
resultWritten_shift32(result) == Field31(result, 32)
resultWritten(result) == Field31(result, 31)

\* The end-of-stream flag read from bit 63.
resultFinished_bit63(result) == FlagBit(result, 63)

\* (result >>> 62 & 1) != 0
resultFinished(result) == FlagBit(result, 62)

\* The dictionary flag never read.
resultNeedDict_never(result) == FALSE

\* The dictionary flag read from bit 62.
resultNeedDict_bit62(result) == FlagBit(result, 62)

\* (result >>> 63 & 1) != 0
resultNeedDict(result) == FlagBit(result, 63)

\* The input view with its position moved to newPos.
inputAt(in, newPos) == [in EXCEPT !.pos = newPos]

\* The catch blocks with the success path's pendingOutput update.
inflateFailed_clearsPending(ans) ==
    LET pos0 == IF input.ref = "null" THEN inputPos ELSE input.pos
    IN /\ IF input.ref = "null"
          THEN /\ inputPos' = inflateFailPosition(pos0, ans.used)
               /\ input' = input
          ELSE /\ input' = inputAt(input, inflateFailPosition(pos0, ans.used))
               /\ inputPos' = inputPos
       /\ bytesRead' = inflateFailTotal(bytesRead, ans.used)
       /\ inputConsumed' = 0
       /\ bytesWritten' = inflateFailTotal(bytesWritten, ans.made)
       /\ outputConsumed' = 0
       /\ pendingOutput' = FALSE
       /\ UNCHANGED <<finished, needDict>>

\* The out field left as the native code stored it.
consumedCleared_kept(n) == n

\* inputConsumed = 0; outputConsumed = 0, after the amount was added to its
\* total.
consumedCleared(n) == 0

\* An out field after the native inflate has thrown: the native code assigns
\* it the amount used so far.
nativeStored(field, n) == n

\* The catch blocks of inflate.  The native code has stored the amounts in
\* inputConsumed and outputConsumed before it threw; the inner handler reads
\* inputConsumed for the input position, the outer one adds each field to
\* its total and then clears it.
inflateFailed(ans) ==
    LET pos0 == IF input.ref = "null" THEN inputPos ELSE input.pos
        consumed == nativeStored(inputConsumed, ans.used)
        produced == nativeStored(outputConsumed, ans.made)
    IN /\ IF input.ref = "null"
          THEN /\ inputPos' = inflateFailPosition(pos0, consumed)
               /\ input' = input
          ELSE /\ input' = inputAt(input, inflateFailPosition(pos0, consumed))
               /\ inputPos' = inputPos
       /\ bytesRead' = inflateFailTotal(bytesRead, consumed)
       /\ inputConsumed' = consumedCleared(consumed)
       /\ bytesWritten' = inflateFailTotal(bytesWritten, produced)
       /\ outputConsumed' = consumedCleared(produced)
       /\ UNCHANGED <<finished, pendingOutput, needDict>>

\* A native inflate called again when it made no output.
feedsOf_retryOnZero(ans) == IF ~ans.dfe /\ ans.made = 0 THEN 2 ELSE 1

\* The calls of the native inflate one inflate makes: the call stands in the
\* try block, in no loop, and no catch block calls it again.
feedsOf(ans) == 1

\* What both inflate variants do with the codec: the call, and the model's
\* own account of the amounts the codec reported.
inflateNative(ans) ==
    /\ bytesRead + ans.used <= MaxTotal
    /\ bytesWritten + ans.made <= MaxTotal
    /\ NativeCall(address)
    /\ sumRead' = sumRead + ans.used
    /\ sumWritten' = sumWritten + ans.made

\* inflate(byte[] output, int off, int len); inflate(byte[]) is off = 0 and
\* len = output.length.
inflateArray ==
    /\ Callable
    /\ \E output \in Arrays :
        \/ \E r \in BadRanges(output) :
            ThrowRange("inflate(byte[])", "AIOOBE", r)
        \/ \E off \in Offsets, len \in Lengths :
            /\ checkFromIndexSize(off, len, output.length)
            /\ IF ~ensureOpen(address)
               THEN ThrowRange("inflate(byte[])", "ISE", <<off, len>>)
               ELSE \E ans \in CodecAnswers(inputLenOf(input, inputPos, inputLim), len) :
                     /\ inflateNative(ans)
                     /\ feeds' = feeds + feedsOf(ans)
                     /\ IF ans.dfe
                        THEN /\ inflateFailed(ans)
                             /\ last' = OnRange(InflateCall("inflate(byte[])", "DFE", len,
                                                            ans, 0, 0, 0),
                                                <<off, len>>)
                        ELSE LET pos0 == IF input.ref = "null" THEN inputPos ELSE input.pos
                                 read == resultRead(ans.result)
                                 written == resultWritten(ans.result)
                                 fin == IF resultFinished(ans.result) THEN TRUE ELSE finished
                             IN /\ finished' = fin
                                /\ pendingOutput' = (written = len /\ ~fin)
                                /\ needDict' = IF resultNeedDict(ans.result)
                                               THEN TRUE ELSE needDict
                                /\ IF input.ref # "null"
                                   THEN /\ input' = IF read > 0
                                                    THEN inputAt(input, pos0 + read)
                                                    ELSE input
                                        /\ inputPos' = inputPos
                                   ELSE /\ inputPos' = pos0 + read
                                        /\ input' = input
                                /\ bytesWritten' = inflateTotal(bytesWritten, written)
                                /\ bytesRead' = inflateTotal(bytesRead, read)
                                /\ last' = OnRange(InflateCall("inflate(byte[])", "ok",
                                                               len, ans, written, 0, 0),
                                                   <<off, len>>)
                                /\ UNCHANGED <<inputConsumed, outputConsumed>>
                     /\ UNCHANGED <<address, inputArray, inputLim, reachable, endCalls,
                                    concVars, roundVars, totalVars, pauseVars, nioVars>>

\* An output buffer left where it was.
outputPosition_kept(outputPos, written) == outputPos

\* output.position(outputPos + written), after the codec's answer and in the
\* handler of its DataFormatException.
outputPosition(outputPos, written) == outputPos + written

\* inflate(ByteBuffer output); the first disjunct is a read-only output.
inflateBuffer ==
    /\ Callable
    /\ \/ Throw("inflate(ByteBuffer)", "ROBE", 0)
       \/ \E output \in Buffers :
           IF ~ensureOpen(address)
           THEN Throw("inflate(ByteBuffer)", "ISE", output.pos)
           ELSE LET outputPos == output.pos
                    outputRem == Max(output.lim - outputPos, 0)
                IN \E ans \in CodecAnswers(inputLenOf(input, inputPos, inputLim), outputRem) :
                    /\ inflateNative(ans)
                    /\ feeds' = feeds + feedsOf(ans)
                    /\ IF ans.dfe
                       THEN /\ inflateFailed(ans)
                            /\ last' = InflateCall("inflate(ByteBuffer)", "DFE", outputRem,
                                                   ans, 0, outputPos,
                                                   outputPosition(outputPos, ans.made))
                       ELSE LET pos0 == IF input.ref = "null" THEN inputPos ELSE input.pos
                                read == resultRead(ans.result)
                                written == resultWritten(ans.result)
                            IN /\ finished' = IF resultFinished(ans.result)
                                              THEN TRUE ELSE finished
                               /\ needDict' = IF resultNeedDict(ans.result)
                                              THEN TRUE ELSE needDict
                               /\ IF input.ref # "null"
                                  THEN /\ input' = inputAt(input, pos0 + read)
                                       /\ inputPos' = inputPos
                                  ELSE /\ inputPos' = pos0 + read
                                       /\ input' = input
                               /\ bytesWritten' = inflateTotal(bytesWritten, written)
                               /\ bytesRead' = inflateTotal(bytesRead, read)
                               /\ last' = InflateCall("inflate(ByteBuffer)", "ok", outputRem,
                                                      ans, written, outputPos,
                                                      outputPosition(outputPos, written))
                               /\ UNCHANGED <<pendingOutput, inputConsumed, outputConsumed>>
                    /\ UNCHANGED <<address, inputArray, inputLim, reachable, endCalls,
                                   concVars, roundVars, totalVars, pauseVars, nioVars>>

\* ------------------------------------------------------------- totals
\* The checksums the native getAdler may answer.
Checksums == {0, 1}

\* A Java long as the set of its one-bits, 0..63, and the long of a count
\* below 2^31.
LongOf(n) == BitsOf(n, 0)

\* An (int) cast that drops bit 31.
IntCast_low31(bits) == Field31(bits, 0)

\* (int) of a long: its low 32 bits as a signed 32-bit number.
IntCast(bits) ==
    LET low == Field31(bits, 0)
    IN IF 31 \in bits THEN (low - Pow2(30)) - Pow2(30) ELSE low

getAdler ==
    /\ Callable
    /\ IF ~ensureOpen(address) THEN Throw("getAdler", "ISE", 0)
       ELSE \E sum \in Checksums :
            /\ NativeCall(address)
            /\ last' = Call("getAdler", "ok", 0, 0, 0, sum, FALSE, 0, 0, TRUE)
            /\ UNCHANGED <<sessVars, reachable, endCalls, sumRead, sumWritten, concVars, restVars>>

getBytesRead ==
    /\ Callable
    /\ IF ~ensureOpen(address) THEN Throw("getBytesRead", "ISE", 0)
       ELSE Return("getBytesRead", bytesRead, FALSE)

getTotalIn ==
    /\ Callable
    /\ IF ~ensureOpen(address) THEN Throw("getTotalIn", "ISE", 0)
       ELSE Return("getTotalIn", IntCast(LongOf(bytesRead)), FALSE)

getBytesWritten ==
    /\ Callable
    /\ IF ~ensureOpen(address) THEN Throw("getBytesWritten", "ISE", 0)
       ELSE Return("getBytesWritten", bytesWritten, FALSE)

getTotalOut ==
    /\ Callable
    /\ IF ~ensureOpen(address) THEN Throw("getTotalOut", "ISE", 0)
       ELSE Return("getTotalOut", IntCast(LongOf(bytesWritten)), FALSE)

\* ------------------------------------------------------------- reset, end
\* reset() that keeps the current input.
resetFields_keepInput ==
    /\ NativeCall(address)
    /\ finished' = FALSE
    /\ needDict' = FALSE
    /\ bytesRead' = 0
    /\ bytesWritten' = 0
    /\ sumRead' = 0
    /\ sumWritten' = 0
    /\ UNCHANGED <<address, input, inputArray, inputPos, inputLim, pendingOutput,
                   inputConsumed, outputConsumed, reachable, endCalls, concVars, restVars>>

\* The fields reset() clears, and the native reset.
resetFields ==
    /\ NativeCall(address)
    /\ input' = defaultBuf
    /\ inputArray' = NullArray
    /\ finished' = FALSE
    /\ needDict' = FALSE
    /\ bytesRead' = 0
    /\ bytesWritten' = 0
    /\ sumRead' = 0
    /\ sumWritten' = 0
    /\ UNCHANGED <<address, inputPos, inputLim, pendingOutput, inputConsumed,
                   outputConsumed, reachable, endCalls, concVars, restVars>>

\* reset() with ensureOpen() moved behind the clearing of the fields.
reset_lateCheck ==
    /\ Callable
    /\ resetFields
    /\ last' = Call("reset", IF ensureOpen(address) THEN "ok" ELSE "ISE",
                    0, 0, 0, 0, FALSE, 0, 0, TRUE)

\* reset() without its ensureOpen().
reset_unchecked ==
    /\ Callable
    /\ resetFields
    /\ last' = Call("reset", "ok", 0, 0, 0, 0, FALSE, 0, 0, TRUE)

reset ==
    /\ Callable
    /\ IF ~ensureOpen(address) THEN Throw("reset", "ISE", 0)
       ELSE /\ resetFields
            /\ last' = Call("reset", "ok", 0, 0, 0, 0, FALSE, 0, 0, TRUE)

\* run's test, never true.
runReleases_never(addr) == FALSE

\* run's test "if (addr != 0)" before the native end(addr).
runReleases_always(addr) == TRUE
runReleases(addr) == addr # 0

\* run() that releases the handle but never zeroes the address.
run_keepsAddress ==
    /\ address' = address
    /\ IF runReleases(address)
       THEN /\ endCalls' = endCalls + 1
            /\ badHandleCall' = (badHandleCall \/ address = 0 \/ endCalls > 0)
       ELSE UNCHANGED <<endCalls, badHandleCall>>

\* InflaterZStreamRef.run(): addr = address; address = 0; if (addr != 0) end(addr).
run ==
    /\ address' = 0
    /\ IF runReleases(address)
       THEN /\ endCalls' = endCalls + 1
            /\ badHandleCall' = (badHandleCall \/ address = 0 \/ endCalls > 0)
       ELSE UNCHANGED <<endCalls, badHandleCall>>

\* InflaterZStreamRef.clean(): cleanable.clean() invokes the cleaning action.
clean == run

\* An end() that never takes its early return.
endAlreadyClosed_never(addr) == FALSE

\* end's test "if (zsRef.address() == 0) return".
endAlreadyClosed(addr) == addr = 0

endBody(op) ==
    /\ Callable
    /\ IF endAlreadyClosed(address) THEN Return(op, 0, FALSE)
       ELSE /\ clean
            /\ input' = defaultBuf
            /\ inputArray' = NullArray
            /\ last' = Call(op, "ok", 0, 0, 0, 0, FALSE, 0, 0, TRUE)
            /\ UNCHANGED <<inputPos, inputLim, finished, pendingOutput, needDict,
                           bytesRead, bytesWritten, inputConsumed, outputConsumed,
                           reachable, sumRead, sumWritten, concVars, restVars>>

end == endBody("end")

close == endBody("close")

\* ------------------------------------------------------------- the Cleaner
\* The last strong reference to the session is dropped.
dropOwner ==
    /\ Callable
    /\ reachable' = FALSE
    /\ last' = Call("drop", "ok", 0, 0, 0, 0, FALSE, 0, 0, FALSE)
    /\ UNCHANGED <<sessVars, endCalls, badHandleCall, sumRead, sumWritten, concVars, restVars>>

\* The Cleaner thread runs the registered action of an unreachable owner;
\* the record of the call tells whether the action released the handle.
cleanerRun ==
    /\ ~reachable
    /\ last = NoCall
    /\ run
    /\ last' = Call("run", "ok", 0, 0, 0, 0, runReleases(address), 0, 0, TRUE)
    /\ UNCHANGED <<input, inputArray, inputPos, inputLim, finished, pendingOutput,
                   needDict, bytesRead, bytesWritten, inputConsumed, outputConsumed,
                   reachable, sumRead, sumWritten, concVars, restVars>>

\* The caller takes the result of the call that has just completed.
callReturns ==
    /\ last # NoCall
    /\ last' = NoCall
    /\ feeds' = 0
    /\ events' = <<>>
    /\ direct' = {}
    /\ UNCHANGED <<sessVars, envVars, concVars, roundVars, totalVars, pauseVars,
                   sessions>>

\* ------------------------------------------------------------- Spec
Threads == {1, 2}
\* The Cleaner's thread.
Cleaner == 3
NoLocal == [in |-> NullBuffer, used |-> 0, made |-> 0, br |-> 0, bw |-> 0]

\* new Inflater(nowrap)
NewInflater ==
    /\ address = Handle
    /\ input = defaultBuf
    /\ inputArray = NullArray
    /\ inputPos = 0
    /\ inputLim = 0
    /\ finished = FALSE
    /\ pendingOutput = FALSE
    /\ needDict = FALSE
    /\ bytesRead = 0
    /\ bytesWritten = 0
    /\ inputConsumed = 0
    /\ outputConsumed = 0
    /\ reachable = TRUE
    /\ endCalls = 0
    /\ badHandleCall = FALSE
    /\ sumRead = 0
    /\ sumWritten = 0
    /\ last = Call("new", "ok", 0, 0, 0, 0, FALSE, 0, 0, TRUE)
    /\ feeds = 0
    /\ sessions = <<>>
    /\ events = <<>>
    /\ direct = {}
    /\ pc = [t \in Threads \cup {Cleaner} |-> "idle"]
    /\ lock = 0
    /\ local = [t \in Threads |-> NoLocal]
    /\ seen = [t \in Threads |-> {}]
    /\ calls = 0

\* The codec before the first byte of a stream.
NewStream == [phase |-> "head", len |-> 0, copied |-> 0, sum |-> 1]

\* No caller is decompressing a stream of its own.
NoRound ==
    /\ original = <<>>
    /\ supplied = 0
    /\ inputBase = 0
    /\ collected = <<>>
    /\ zstream = NewStream

\* The totals of a new session, as longs.
NoTotals ==
    /\ bytesReadBits = {}
    /\ bytesWrittenBits = {}

\* No call on a GcPauseTimeInfo yet.
NoPauseCall == [op |-> "none", arg |-> 0, ret |-> 0]

\* No GcPauseTimeInfo has been constructed.
NoPause ==
    /\ _start_time = 0
    /\ _duration = 0
    /\ _end_of_last_pause = 0
    /\ object = "none"
    /\ given = <<0, 0, 0>>
    /\ mutated = FALSE
    /\ pauseCall = NoPauseCall

Init ==
    /\ NewInflater
    /\ NoRound
    /\ NoTotals
    /\ NoPause
    /\ debugBuild = FALSE

Next ==
    \/ setInputArray
    \/ setInputBuffer
    \/ setDictionaryArray
    \/ setDictionaryBuffer
    \/ getRemaining
    \/ needsInput
    \/ needsDictionary
    \/ finishedQuery
    \/ hasPendingOutput
    \/ inflateArray
    \/ inflateBuffer
    \/ getAdler
    \/ getBytesRead
    \/ getTotalIn
    \/ getBytesWritten
    \/ getTotalOut
    \/ reset
    \/ end
    \/ close
    \/ dropOwner
    \/ cleanerRun
    \/ callReturns

Spec == Init /\ [][Next]_vars

\* Spec with a Cleaner thread that does run: the action of an unreachable
\* owner is not postponed for ever, and a call that has completed returns.
SpecLive == Spec /\ WF_vars(cleanerRun) /\ WF_vars(callReturns)

\* ------------------------------------------------------------- SpecConc
\* The calls of two threads on one session, taken apart at the monitor of
\* zsRef: what a method does before "synchronized (zsRef)", the entry to the
\* monitor, the reads and writes of its body, and the exit.

\* synchronized (zsRef) with a monitor that excludes nobody.
monitorEnter_shared(t) == lock' = t

\* A monitor its owner cannot enter a second time.
monitorEnter_once(t) ==
    /\ lock = 0
    /\ lock' = t

\* synchronized (zsRef): the monitor is free, or the thread owns it already.
monitorEnter(t) ==
    /\ lock \in {0, t}
    /\ lock' = t

\* The end of the synchronized block.
monitorExit(t) == lock' = IF lock = t THEN 0 ELSE lock

\* Where a thread waits for the monitor, and where it stands once inside.
EnterPcs == {"siA_enter", "siB_enter", "sd_enter", "gr_enter", "ni_enter",
             "inflA_enter", "inflB_enter"}
AfterEnter(l) ==
    CASE l = "siA_enter" -> "siA_1"
      [] l = "siB_enter" -> "siB_1"
      [] l = "sd_enter" -> "sd_1"
      [] l = "gr_enter" -> "gr_1"
      [] l = "ni_enter" -> "ni_1"
      [] l = "inflA_enter" -> "inflA_1"
      [] l = "inflB_enter" -> "inflB_1"

\* The methods whose body is a synchronized block, but for getRemaining().
Synchronized_butGetRemaining(l) == l \in EnterPcs \ {"gr_enter"}

\* The methods whose body is a synchronized block, but for the two inflate.
Synchronized_butInflate(l) == l \in EnterPcs \ {"inflA_enter", "inflB_enter"}

\* The methods whose body is a synchronized block, by where they wait.
Synchronized(l) == l \in EnterPcs

\* The places inside getRemaining() and needsInput(), from the call on.
ReaderPcs == {"gr_enter", "gr_1", "gr_2", "ni_enter", "ni_1", "ni_2"}

\* The places inside the body of a method that writes the session's fields.
MutatorPcs == {"siA_1", "siA_2", "siB_1", "sd_1", "inflA_1", "inflB_1",
               "infl_2", "inflF_2", "infl_3", "rs_1", "end_1", "end_2", "run_1"}

\* No writing method is part way through its body.
Stable == \A t \in Threads \cup {Cleaner} : pc[t] \notin MutatorPcs

\* The account of what getRemaining() was worth, at the moments between
\* complete calls, while a thread's getRemaining() or needsInput() ran.
noteSeen ==
    seen' = [u \in Threads |->
                IF pc'[u] \notin ReaderPcs THEN {}
                ELSE (IF pc[u] \in ReaderPcs THEN seen[u] ELSE {})
                     \cup (IF Stable'
                           THEN {getRemainingOf(input', inputPos', inputLim')}
                           ELSE {})]

\* A thread that holds a reference to the session starts a call.
Begin(t) ==
    /\ reachable
    /\ calls < MaxCalls
    /\ calls' = calls + 1

Goto(t, l) == pc' = [pc EXCEPT ![t] = l]

\* A call whose first statement is "synchronized (zsRef)".
BeginSynchronized(t, l) ==
    /\ Begin(t)
    /\ monitorEnter(t)
    /\ Goto(t, l)
    /\ UNCHANGED <<sessVars, envVars, last, restVars, local>>
    /\ noteSeen

\* A call that has something to do before "synchronized (zsRef)".
BeginOutside(t, l) ==
    /\ Begin(t)
    /\ Goto(t, l)
    /\ UNCHANGED <<sessVars, envVars, last, restVars, lock, local>>
    /\ noteSeen

\* The last step of a body that writes nothing.
LeaveUnchanged(t) ==
    /\ monitorExit(t)
    /\ Goto(t, "idle")
    /\ UNCHANGED <<sessVars, envVars, last, restVars, local, calls>>
    /\ noteSeen

\* The thread enters the monitor it waits for.
enter(t) ==
    /\ pc[t] \in EnterPcs
    /\ IF Synchronized(pc[t]) THEN monitorEnter(t) ELSE UNCHANGED lock
    /\ Goto(t, AfterEnter(pc[t]))
    /\ UNCHANGED <<sessVars, envVars, last, restVars, local, calls>>
    /\ noteSeen

\* setInput(byte[], int, int): Preconditions.checkFromIndexSize, before the
\* monitor; a range it rejects ends the call.
setInputArray_check(t) ==
    /\ pc[t] = "idle"
    /\ \E arr \in Arrays : GoodRanges(arr) # {}
    /\ BeginOutside(t, "siA_enter")

\* this.input = null; this.inputArray = input
setInputArray_view(t) ==
    /\ pc[t] = "siA_1"
    /\ \E arr \in Arrays :
        /\ input' = NullBuffer
        /\ inputArray' = arr
    /\ Goto(t, "siA_2")
    /\ UNCHANGED <<address, inputPos, inputLim, finished, pendingOutput, needDict,
                   bytesRead, bytesWritten, inputConsumed, outputConsumed,
                   envVars, last, restVars, lock, local, calls>>
    /\ noteSeen

\* this.inputPos = off; this.inputLim = off + len
setInputArray_range(t) ==
    /\ pc[t] = "siA_2"
    /\ \E r \in GoodRanges(inputArray) :
        /\ inputPos' = r[1]
        /\ inputLim' = r[1] + r[2]
    /\ monitorExit(t)
    /\ Goto(t, "idle")
    /\ UNCHANGED <<address, input, inputArray, finished, pendingOutput, needDict,
                   bytesRead, bytesWritten, inputConsumed, outputConsumed,
                   envVars, last, restVars, local, calls>>
    /\ noteSeen

\* setInput(ByteBuffer): Objects.requireNonNull, before the monitor.
setInputBuffer_check(t) ==
    /\ pc[t] = "idle"
    /\ BeginOutside(t, "siB_enter")

\* this.input = input; this.inputArray = null
setInputBuffer_view(t) ==
    /\ pc[t] = "siB_1"
    /\ \E buf \in Buffers :
        /\ input' = buf
        /\ inputArray' = NullArray
    /\ monitorExit(t)
    /\ Goto(t, "idle")
    /\ UNCHANGED <<address, inputPos, inputLim, finished, pendingOutput, needDict,
                   bytesRead, bytesWritten, inputConsumed, outputConsumed,
                   envVars, last, restVars, local, calls>>
    /\ noteSeen

\* setDictionary(byte[], int, int): Preconditions.checkFromIndexSize, before
\* the monitor.
setDictionaryArray_check(t) ==
    /\ pc[t] = "idle"
    /\ \E arr \in Arrays : GoodRanges(arr) # {}
    /\ BeginOutside(t, "sd_enter")

\* ensureOpen(); setDictionary(zsRef.address(), ...); needDict = false
setDictionaryArray_body(t) ==
    /\ pc[t] = "sd_1"
    /\ IF ~ensureOpen(address)
       THEN UNCHANGED <<needDict, badHandleCall>>
       ELSE \E ans \in DictionaryAnswers :
             /\ NativeCall(address)
             /\ needDict' = IF ans = "ok" THEN FALSE ELSE needDict
    /\ monitorExit(t)
    /\ Goto(t, "idle")
    /\ UNCHANGED <<address, input, inputArray, inputPos, inputLim, finished,
                   pendingOutput, bytesRead, bytesWritten, inputConsumed,
                   outputConsumed, reachable, endCalls, sumRead, sumWritten,
                   last, restVars, local, calls>>
    /\ noteSeen

\* getRemaining() is called.
getRemaining_call(t) ==
    /\ pc[t] = "idle"
    /\ BeginOutside(t, "gr_enter")

\* needsInput() is called.
needsInput_call(t) ==
    /\ pc[t] = "idle"
    /\ BeginOutside(t, "ni_enter")

\* ByteBuffer input = this.input
readInput(t) ==
    /\ pc[t] \in {"gr_1", "ni_1"}
    /\ local' = [local EXCEPT ![t].in = input]
    /\ Goto(t, IF pc[t] = "gr_1" THEN "gr_2" ELSE "ni_2")
    /\ UNCHANGED <<sessVars, envVars, last, restVars, lock, calls>>
    /\ noteSeen

\* return input == null ? inputLim - inputPos : input.remaining(), and the
\* like of needsInput.
returnRemaining(t) ==
    /\ pc[t] \in {"gr_2", "ni_2"}
    /\ local' = [local EXCEPT ![t] = NoLocal]
    /\ monitorExit(t)
    /\ Goto(t, "idle")
    /\ UNCHANGED <<sessVars, envVars, last, restVars, calls>>
    /\ noteSeen

\* What the call of thread t at gr_2 or ni_2 is about to return.
getRemainingResult(t) == getRemainingOf(local[t].in, inputPos, inputLim)
needsInputResult(t) == needsInputOf(local[t].in, inputPos, inputLim)

\* hasPendingOutput() is called: the method has no synchronized block.
hasPendingOutput_call(t) ==
    /\ pc[t] = "idle"
    /\ BeginOutside(t, "hpo")

\* return pendingOutput
hasPendingOutput_read(t) ==
    /\ pc[t] = "hpo"
    /\ Goto(t, "idle")
    /\ UNCHANGED <<sessVars, envVars, last, restVars, lock, local, calls>>
    /\ noteSeen

\* inflate(byte[], int, int): Preconditions.checkFromIndexSize, before the
\* monitor.
inflateArray_check(t) ==
    /\ pc[t] = "idle"
    /\ \E output \in Arrays : GoodRanges(output) # {}
    /\ BeginOutside(t, "inflA_enter")

\* inflate(ByteBuffer): output.isReadOnly(), before the monitor.
inflateBuffer_check(t) ==
    /\ pc[t] = "idle"
    /\ BeginOutside(t, "inflB_enter")

\* ensureOpen() of a closed session inside a body: the exception leaves the
\* synchronized block.
throwClosed(t) ==
    /\ pc[t] \in {"inflA_1", "inflB_1", "rs_1", "gbr_1"}
    /\ ~ensureOpen(address)
    /\ LeaveUnchanged(t)

\* The body of inflate up to the totals: the call of the codec, the flags
\* and the position of the input.
inflate_codec(t) ==
    /\ pc[t] \in {"inflA_1", "inflB_1"}
    /\ ensureOpen(address)
    /\ \E len \in 0..MaxLen :
        \E ans \in CodecAnswers(inputLenOf(input, inputPos, inputLim), len) :
          LET pos0 == IF input.ref = "null" THEN inputPos ELSE input.pos
              read == IF ans.dfe THEN ans.used ELSE resultRead(ans.result)
              written == IF ans.dfe THEN ans.made ELSE resultWritten(ans.result)
              newPos == IF ans.dfe THEN inflateFailPosition(pos0, read)
                        ELSE pos0 + read
              fin == IF resultFinished(ans.result) THEN TRUE ELSE finished
          IN /\ inflateNative(ans)
             /\ IF ans.dfe
                THEN UNCHANGED <<finished, pendingOutput, needDict>>
                ELSE /\ finished' = fin
                     /\ pendingOutput' = IF pc[t] = "inflA_1"
                                         THEN (written = len /\ ~fin)
                                         ELSE pendingOutput
                     /\ needDict' = IF resultNeedDict(ans.result)
                                    THEN TRUE ELSE needDict
             /\ IF input.ref = "null"
                THEN /\ inputPos' = newPos
                     /\ input' = input
                ELSE /\ input' = IF ans.dfe \/ read > 0
                                 THEN inputAt(input, newPos) ELSE input
                     /\ inputPos' = inputPos
             /\ local' = [local EXCEPT ![t].used = read, ![t].made = written]
             /\ Goto(t, IF ans.dfe THEN "inflF_2" ELSE "infl_2")
    /\ UNCHANGED <<address, inputArray, inputLim, bytesRead, bytesWritten,
                   inputConsumed, outputConsumed, reachable, endCalls, last, restVars,
                   lock, calls>>
    /\ noteSeen

\* The reads of "bytesWritten += written; bytesRead += read".
inflate_readTotals(t) ==
    /\ pc[t] \in {"infl_2", "inflF_2"}
    /\ local' = [local EXCEPT
                   ![t].br = IF pc[t] = "infl_2"
                             THEN inflateTotal(bytesRead, local[t].used)
                             ELSE inflateFailTotal(bytesRead, local[t].used),
                   ![t].bw = IF pc[t] = "infl_2"
                             THEN inflateTotal(bytesWritten, local[t].made)
                             ELSE inflateFailTotal(bytesWritten, local[t].made),
                   ![t].used = 0,
                   ![t].made = 0]
    /\ Goto(t, "infl_3")
    /\ UNCHANGED <<sessVars, envVars, last, restVars, lock, calls>>
    /\ noteSeen

\* The writes of "bytesWritten += written; bytesRead += read".
inflate_writeTotals(t) ==
    /\ pc[t] = "infl_3"
    /\ bytesRead' = local[t].br
    /\ bytesWritten' = local[t].bw
    /\ local' = [local EXCEPT ![t] = NoLocal]
    /\ monitorExit(t)
    /\ Goto(t, "idle")
    /\ UNCHANGED <<address, input, inputArray, inputPos, inputLim, finished,
                   pendingOutput, needDict, inputConsumed, outputConsumed,
                   envVars, last, restVars, calls>>
    /\ noteSeen

\* getBytesRead() is called.
getBytesRead_call(t) ==
    /\ pc[t] = "idle"
    /\ BeginSynchronized(t, "gbr_1")

\* ensureOpen(); return bytesRead
getBytesRead_read(t) ==
    /\ pc[t] = "gbr_1"
    /\ ensureOpen(address)
    /\ LeaveUnchanged(t)

\* reset() is called.
reset_call(t) ==
    /\ pc[t] = "idle"
    /\ BeginSynchronized(t, "rs_1")

\* ensureOpen(); reset(zsRef.address()); the fields reset() clears.
reset_body(t) ==
    /\ pc[t] = "rs_1"
    /\ ensureOpen(address)
    /\ NativeCall(address)
    /\ input' = defaultBuf
    /\ inputArray' = NullArray
    /\ finished' = FALSE
    /\ needDict' = FALSE
    /\ bytesRead' = 0
    /\ bytesWritten' = 0
    /\ sumRead' = 0
    /\ sumWritten' = 0
    /\ monitorExit(t)
    /\ Goto(t, "idle")
    /\ UNCHANGED <<address, inputPos, inputLim, pendingOutput, inputConsumed,
                   outputConsumed, reachable, endCalls, last, restVars, local, calls>>
    /\ noteSeen

\* end() is called; close() is end().
end_call(t) ==
    /\ pc[t] = "idle"
    /\ BeginSynchronized(t, "end_1")

\* if (zsRef.address() == 0) return
end_closed(t) ==
    /\ pc[t] = "end_1"
    /\ endAlreadyClosed(address)
    /\ LeaveUnchanged(t)

\* zsRef.clean(): run() enters the monitor its caller holds already.
end_clean(t) ==
    /\ pc[t] = "end_1"
    /\ ~endAlreadyClosed(address)
    /\ monitorEnter(t)
    /\ clean
    /\ Goto(t, "end_2")
    /\ UNCHANGED <<input, inputArray, inputPos, inputLim, finished, pendingOutput,
                   needDict, bytesRead, bytesWritten, inputConsumed, outputConsumed,
                   reachable, sumRead, sumWritten, last, restVars, local, calls>>
    /\ noteSeen

\* input = ZipUtils.defaultBuf; inputArray = null
end_view(t) ==
    /\ pc[t] = "end_2"
    /\ input' = defaultBuf
    /\ inputArray' = NullArray
    /\ monitorExit(t)
    /\ Goto(t, "idle")
    /\ UNCHANGED <<address, inputPos, inputLim, finished, pendingOutput, needDict,
                   bytesRead, bytesWritten, inputConsumed, outputConsumed,
                   envVars, last, restVars, local, calls>>
    /\ noteSeen

\* The threads drop their references to the session; none is inside a call.
dropOwnerConc ==
    /\ reachable
    /\ \A t \in Threads : pc[t] = "idle"
    /\ reachable' = FALSE
    /\ UNCHANGED <<sessVars, endCalls, badHandleCall, sumRead, sumWritten, last, restVars,
                   pc, lock, local, calls>>
    /\ noteSeen

\* The Cleaner thread calls run() of an unreachable owner: run is a
\* synchronized method of zsRef.
cleaner_enter ==
    /\ ~reachable
    /\ pc[Cleaner] = "idle"
    /\ monitorEnter(Cleaner)
    /\ Goto(Cleaner, "run_1")
    /\ UNCHANGED <<sessVars, envVars, last, restVars, local, calls>>
    /\ noteSeen

cleaner_run ==
    /\ pc[Cleaner] = "run_1"
    /\ run
    /\ monitorExit(Cleaner)
    /\ Goto(Cleaner, "idle")
    /\ UNCHANGED <<input, inputArray, inputPos, inputLim, finished, pendingOutput,
                   needDict, bytesRead, bytesWritten, inputConsumed, outputConsumed,
                   reachable, sumRead, sumWritten, last, restVars, local, calls>>
    /\ noteSeen

InitConc == Init

NextConc ==
    \/ \E t \in Threads :
        \/ enter(t)
        \/ setInputArray_check(t)
        \/ setInputArray_view(t)
        \/ setInputArray_range(t)
        \/ setInputBuffer_check(t)
        \/ setInputBuffer_view(t)
        \/ setDictionaryArray_check(t)
        \/ setDictionaryArray_body(t)
        \/ getRemaining_call(t)
        \/ needsInput_call(t)
        \/ readInput(t)
        \/ returnRemaining(t)
        \/ hasPendingOutput_call(t)
        \/ hasPendingOutput_read(t)
        \/ inflateArray_check(t)
        \/ inflateBuffer_check(t)
        \/ throwClosed(t)
        \/ inflate_codec(t)
        \/ inflate_readTotals(t)
        \/ inflate_writeTotals(t)
        \/ getBytesRead_call(t)
        \/ getBytesRead_read(t)
        \/ reset_call(t)
        \/ reset_body(t)
        \/ end_call(t)
        \/ end_closed(t)
        \/ end_clean(t)
        \/ end_view(t)
    \/ dropOwnerConc
    \/ cleaner_enter
    \/ cleaner_run

SpecConc == InitConc /\ [][NextConc]_vars

\* The next step of a call thread t has begun.
Continue(t) ==
    /\ pc[t] # "idle"
    /\ NextConc
    /\ pc'[t] # pc[t]

\* SpecConc under a fair scheduler and a fair monitor: a thread inside a
\* call is not passed over for ever, including while it waits for the
\* monitor that other threads take and release; the codec call is one step,
\* so it returns. Nothing obliges a caller to begin a call.
SpecConcFair ==
    /\ SpecConc
    /\ \A t \in Threads : SF_vars(Continue(t))
    /\ SF_vars(cleaner_enter)
    /\ WF_vars(cleaner_run)

\* ------------------------------------------------------------- SpecRound
\* One caller decompresses what the companion compressor made of a byte
\* sequence, passing input when needsInput() asks for it and collecting
\* the output of every inflate call, until finished().
Bytes == {0, 1}
\* The byte sequences a caller compresses.
Originals == UNION {[1..n -> Bytes] : n \in 0..MaxLen}
\* The steps the codec may take inside one call.
MaxUnits == MaxLen + 2

RECURSIVE SumOf(_)
SumOf(s) == IF s = <<>> THEN 0 ELSE Head(s) + SumOf(Tail(s))

\* The check value the stream ends with.
checksumOf(s) == (1 + SumOf(s)) % 2

\* The compressor's output for B: the length, the bytes, the check value.
deflate(B) == <<Len(B)>> \o B \o <<checksumOf(B)>>

\* The codec takes one byte b of the stream.
zStep(z, b) ==
    CASE z.phase = "head" ->
            [z EXCEPT !.len = b, !.phase = IF b = 0 THEN "tail" ELSE "body"]
      [] z.phase = "body" ->
            [z EXCEPT !.copied = @ + 1, !.sum = (@ + b) % 2,
                      !.phase = IF z.copied + 1 = z.len THEN "tail" ELSE "body"]
      [] z.phase = "tail" ->
            [z EXCEPT !.phase = IF b = z.sum THEN "done" ELSE "bad"]
      [] OTHER -> z

\* The codec called with the input bytes and space bytes of room: it takes
\* up to k bytes, stopping at the end of the stream, of the input or of the
\* room; used counts the bytes taken, made holds the bytes produced.
RECURSIVE zInflate(_, _, _, _)
zInflate(z, bytes, space, k) ==
    IF \/ k = 0
       \/ bytes = <<>>
       \/ z.phase \in {"done", "bad"}
       \/ (z.phase = "body" /\ space = 0)
    THEN [z |-> z, used |-> 0, made |-> <<>>]
    ELSE LET b == Head(bytes)
             p == IF z.phase = "body" THEN <<b>> ELSE <<>>
             r == zInflate(zStep(z, b), Tail(bytes), space - Len(p), k - 1)
         IN [z |-> r.z, used |-> r.used + 1, made |-> p \o r.made]

\* What the caller's input array holds at index j.
inputByte(j) ==
    LET c == deflate(original)
        i == inputBase + j + 1
    IN IF i \in 1..Len(c) THEN c[i] ELSE 0

\* The bytes the session offers the codec: inputArray[inputPos .. inputLim).
inputWindow ==
    [i \in 1..Max(inputLim - inputPos, 0) |-> inputByte(inputPos + i - 1)]

\* The first n bytes of an output array the codec wrote made into.
outputBytes(made, n) == [i \in 1..n |-> IF i <= Len(made) THEN made[i] ELSE 0]

\* The caller's "if (needsInput()) setInput(chunk, off, len)" with the next
\* bytes of the compressed stream.
roundSetInput ==
    /\ ~finished
    /\ needsInputOf(input, inputPos, inputLim)
    /\ \E arr \in Arrays, off \in Offsets, len \in Lengths :
        /\ checkFromIndexSize(off, len, arr.length)
        /\ len > 0
        /\ supplied + len <= Len(deflate(original))
        /\ input' = NullBuffer
        /\ inputArray' = arr
        /\ inputPos' = off
        /\ inputLim' = off + len
        /\ inputBase' = supplied - off
        /\ supplied' = supplied + len
        /\ last' = OnRange(Call("setInput(byte[])", "ok", 0, 0, 0, 0, FALSE,
                                0, 0, FALSE), <<off, len>>)
    /\ UNCHANGED <<address, finished, pendingOutput, needDict, bytesRead,
                   bytesWritten, inputConsumed, outputConsumed, envVars,
                   concVars, original, collected, zstream, totalVars, pauseVars, feeds, nioVars>>

\* The caller's "n = inflate(output, off, len)" and its taking of
\* output[off .. off + n); a data-format error ends the loop.
roundInflate ==
    /\ ~finished
    /\ zstream.phase # "bad"
    /\ ensureOpen(address)
    /\ \E output \in Arrays, off \in Offsets, len \in Lengths, k \in 0..MaxUnits :
        /\ checkFromIndexSize(off, len, output.length)
        /\ LET r == zInflate(zstream, inputWindow, len, k)
               w == Len(r.made)
               dfe == r.z.phase = "bad"
               ans == [dfe |-> dfe,
                       result |-> IF dfe THEN {}
                                  ELSE PackResult(r.used, w, r.z.phase = "done", FALSE),
                       used |-> r.used, made |-> w,
                       fin |-> r.z.phase = "done", dict |-> FALSE]
           IN /\ NativeCall(address)
              /\ sumRead' = sumRead + r.used
              /\ sumWritten' = sumWritten + w
              /\ zstream' = r.z
              /\ IF dfe
                 THEN /\ inflateFailed(ans)
                      /\ collected' = collected
                      /\ last' = OnRange(InflateCall("inflate(byte[])", "DFE", len,
                                                     ans, 0, 0, 0), <<off, len>>)
                 ELSE LET read == resultRead(ans.result)
                          written == resultWritten(ans.result)
                          fin == IF resultFinished(ans.result) THEN TRUE ELSE finished
                      IN /\ finished' = fin
                         /\ pendingOutput' = (written = len /\ ~fin)
                         /\ needDict' = IF resultNeedDict(ans.result)
                                        THEN TRUE ELSE needDict
                         /\ inputPos' = inputPos + read
                         /\ input' = input
                         /\ bytesWritten' = inflateTotal(bytesWritten, written)
                         /\ bytesRead' = inflateTotal(bytesRead, read)
                         /\ collected' = collected \o outputBytes(r.made, written)
                         /\ last' = OnRange(InflateCall("inflate(byte[])", "ok",
                                                        len, ans, written, 0, 0),
                                            <<off, len>>)
                         /\ UNCHANGED <<inputConsumed, outputConsumed>>
    /\ UNCHANGED <<address, inputArray, inputLim, reachable, endCalls, concVars,
                   original, supplied, inputBase, totalVars, pauseVars, feeds, nioVars>>

\* new Inflater() for the compressed form of some byte sequence.
InitRound ==
    /\ NewInflater
    /\ original \in Originals
    /\ supplied = 0
    /\ inputBase = 0
    /\ collected = <<>>
    /\ zstream = NewStream
    /\ NoTotals
    /\ NoPause
    /\ debugBuild = FALSE

NextRound ==
    \/ roundSetInput
    \/ roundInflate

SpecRound == InitRound /\ [][NextRound]_vars

\* ------------------------------------------------------------- SpecTotals
\* A session that has been decompressing for long: its two totals are
\* anywhere in the range of a non-negative long, and inflate adds to them.
\* The bits a total of the initial states is made of, and the totals with
\* every bit set below bit 31, 32 and 63.
BoundaryBits == {0, 30, 31, 32, 62}
LongTotals == (SUBSET BoundaryBits) \cup {0..30, 0..31, 0..62}

\* long + 1, in 64 bits.
LongInc(bits) ==
    LET zeros == (0..63) \ bits
    IN IF zeros = {} THEN {}
       ELSE LET k == CHOOSE z \in zeros : \A y \in zeros : z <= y
            IN {b \in bits : b > k} \cup {k}

\* long += n for an int n >= 0.
RECURSIVE LongAdd(_, _)
LongAdd(bits, n) == IF n = 0 THEN bits ELSE LongAdd(LongInc(bits), n - 1)

\* bytesWritten += written; bytesRead += read, at the end of inflate.
totalsInflate ==
    /\ ensureOpen(address)
    /\ \E read \in 0..MaxLen, written \in 0..MaxLen :
        /\ sumRead + read <= MaxTotal
        /\ sumWritten + written <= MaxTotal
        /\ 63 \notin LongAdd(bytesReadBits, read)
        /\ 63 \notin LongAdd(bytesWrittenBits, written)
        /\ bytesWrittenBits' = LongAdd(bytesWrittenBits, written)
        /\ bytesReadBits' = LongAdd(bytesReadBits, read)
        /\ sumRead' = sumRead + read
        /\ sumWritten' = sumWritten + written
        /\ last' = Call("inflate(byte[])", "ok", 0, read, written, written, FALSE,
                        0, 0, TRUE)
    /\ UNCHANGED <<sessVars, reachable, endCalls, badHandleCall, concVars, roundVars,
                   pauseVars, feeds, nioVars>>

\* getTotalIn(): return (int) getBytesRead()
totalsGetTotalIn ==
    /\ ensureOpen(address)
    /\ last' = Call("getTotalIn", "ok", 0, 0, 0, IntCast(bytesReadBits), FALSE,
                    0, 0, FALSE)
    /\ UNCHANGED <<sessVars, envVars, concVars, restVars>>

\* getTotalOut(): return (int) getBytesWritten()
totalsGetTotalOut ==
    /\ ensureOpen(address)
    /\ last' = Call("getTotalOut", "ok", 0, 0, 0, IntCast(bytesWrittenBits), FALSE,
                    0, 0, FALSE)
    /\ UNCHANGED <<sessVars, envVars, concVars, restVars>>

InitTotals ==
    /\ NewInflater
    /\ NoRound
    /\ bytesReadBits \in LongTotals
    /\ bytesWrittenBits \in LongTotals
    /\ NoPause
    /\ debugBuild = FALSE

NextTotals ==
    \/ totalsInflate
    \/ totalsGetTotalIn
    \/ totalsGetTotalOut

SpecTotals == InitTotals /\ [][NextTotals]_vars

\* ------------------------------------------------------------- SpecPause
\* GcPauseTimeInfo. A double is a number with Precision significant bits
\* and a unit of at least 1, up to MaxFinite, or an infinity, or NaN; every
\* sum is rounded to the nearest such number, ties to the even one.
Precision == 2
MaxExponent == 1
MaxFinite == (Pow2(Precision) - 1) * Pow2(MaxExponent)
PosInf == 4 * MaxFinite
NegInf == 0 - PosInf
NaN == PosInf + 1

\* The distance between neighbouring doubles at x >= 0.
RECURSIVE UnitOf(_)
UnitOf(x) == IF x < Pow2(Precision) THEN 1 ELSE 2 * UnitOf(x \div 2)

\* The exact number x >= 0 rounded to a double.
RoundNearestEven(x) ==
    LET u == UnitOf(x)
        q == x \div u
        r == x % u
        n == IF 2 * r < u THEN q * u
             ELSE IF 2 * r > u THEN (q + 1) * u
             ELSE (q + (q % 2)) * u
    IN IF n > MaxFinite THEN PosInf ELSE n

Round(x) == IF x < 0 THEN 0 - RoundNearestEven(0 - x) ELSE RoundNearestEven(x)

Finite == {Round(x) : x \in (0 - MaxFinite)..MaxFinite}
Doubles == Finite \cup {PosInf, NegInf, NaN}

\* a + b
dadd(a, b) ==
    IF a = NaN \/ b = NaN THEN NaN
    ELSE IF a \in {PosInf, NegInf}
         THEN (IF b \in {PosInf, NegInf} /\ b # a THEN NaN ELSE a)
    ELSE IF b \in {PosInf, NegInf} THEN b
    ELSE Round(a + b)

\* a - b
dsub(a, b) == dadd(a, IF b = NaN THEN NaN ELSE 0 - b)

\* a >= 0
dge0(a) == a # NaN /\ a >= 0

\* a < 0
dlt0(a) == a # NaN /\ a < 0

\* The times and durations a caller passes: any non-negative double, and
\* some of the others.
Times == {x \in Doubles : dge0(x)} \cup {0 - 1, NegInf, NaN}

\* assert(p, msg) in a build that always checks.
vmassert_always(p, checked) == p

\* assert(p, msg): checked where the build defines ASSERT, nothing
\* elsewhere. TRUE when the program goes on.
vmassert(p, checked) == checked => p

\* GcPauseTimeInfo(pause_start_time, pause_duration, end_of_last_pause): the
\* member initialisers, then the three asserts.
GcPauseTimeInfo(s, d, e) ==
    /\ _start_time' = s
    /\ _duration' = d
    /\ _end_of_last_pause' = e
    /\ object' = IF /\ vmassert(dge0(s), debugBuild)
                    /\ vmassert(dge0(d), debugBuild)
                    /\ vmassert(dge0(e), debugBuild)
                 THEN "live" ELSE "aborted"

construct ==
    /\ object = "none"
    /\ \E s \in Times, d \in Times, e \in Times :
        /\ GcPauseTimeInfo(s, d, e)
        /\ given' = <<s, d, e>>
    /\ pauseCall' = [op |-> "GcPauseTimeInfo", arg |-> 0, ret |-> 0]
    /\ UNCHANGED <<sessVars, envVars, last, concVars, roundVars, totalVars, feeds, nioVars,
                   debugBuild, mutated>>

\* A call that changes nothing and returns ret.
Query(op, ret) ==
    /\ pauseCall' = [op |-> op, arg |-> 0, ret |-> ret]
    /\ UNCHANGED <<sessVars, envVars, last, concVars, roundVars, totalVars, feeds, nioVars,
                   _start_time, _duration, _end_of_last_pause, object,
                   debugBuild, given, mutated>>

\* The frame of a setter: the call's record, and what it leaves alone.
Setter(op, v, ret) ==
    /\ pauseCall' = [op |-> op, arg |-> v, ret |-> ret]
    /\ mutated' = TRUE
    /\ given' = <<0, 0, 0>>
    /\ UNCHANGED <<sessVars, envVars, last, concVars, roundVars, totalVars, feeds, nioVars,
                   object, debugBuild>>

end_of_last_pause ==
    /\ object = "live"
    /\ Query("end_of_last_pause", _end_of_last_pause)

\* A setter that asserts what the constructor asserts.
set_end_of_last_pause_checked ==
    /\ object = "live"
    /\ \E v \in Times :
        /\ _end_of_last_pause' = IF dge0(v) THEN v ELSE _end_of_last_pause
        /\ Setter("set_end_of_last_pause", v, _end_of_last_pause')
        /\ UNCHANGED <<_start_time, _duration>>

\* return _end_of_last_pause = end_of_last_pause
set_end_of_last_pause ==
    /\ object = "live"
    /\ \E v \in Times :
        /\ _end_of_last_pause' = v
        /\ Setter("set_end_of_last_pause", v, _end_of_last_pause')
        /\ UNCHANGED <<_start_time, _duration>>

start_time ==
    /\ object = "live"
    /\ Query("start_time", _start_time)

\* return _start_time = start_time
set_start_time ==
    /\ object = "live"
    /\ \E v \in Times :
        /\ _start_time' = v
        /\ Setter("set_start_time", v, _start_time')
        /\ UNCHANGED <<_duration, _end_of_last_pause>>

duration ==
    /\ object = "live"
    /\ Query("duration", _duration)

\* set_duration that also moves the start time to the end of the last pause.
set_duration_movesStart ==
    /\ object = "live"
    /\ \E v \in Times :
        /\ _duration' = v
        /\ _start_time' = _end_of_last_pause
        /\ Setter("set_duration", v, _duration')
        /\ UNCHANGED _end_of_last_pause

\* return _duration = duration
set_duration ==
    /\ object = "live"
    /\ \E v \in Times :
        /\ _duration' = v
        /\ Setter("set_duration", v, _duration')
        /\ UNCHANGED <<_start_time, _end_of_last_pause>>

\* The total taken as start plus duration, less the end of the last pause.
total_duration_regrouped(start, dur, endLast) == dsub(dadd(start, dur), endLast)

\* return _start_time - _end_of_last_pause
preceding_nongc_duration_of(start, endLast) == dsub(start, endLast)

\* return preceding_nongc_duration() + _duration
total_duration_of(start, dur, endLast) ==
    dadd(preceding_nongc_duration_of(start, endLast), dur)

\* return _start_time + _duration
pause_end_time_of(start, dur) == dadd(start, dur)

preceding_nongc_duration ==
    /\ object = "live"
    /\ Query("preceding_nongc_duration",
             preceding_nongc_duration_of(_start_time, _end_of_last_pause))

total_duration ==
    /\ object = "live"
    /\ Query("total_duration",
             total_duration_of(_start_time, _duration, _end_of_last_pause))

pause_end_time ==
    /\ object = "live"
    /\ Query("pause_end_time", pause_end_time_of(_start_time, _duration))

\* No object yet, in a debug build or in a product build.
InitPause ==
    /\ NewInflater
    /\ NoRound
    /\ NoTotals
    /\ NoPause
    /\ debugBuild \in BOOLEAN

NextPause ==
    \/ construct
    \/ end_of_last_pause
    \/ set_end_of_last_pause
    \/ start_time
    \/ set_start_time
    \/ duration
    \/ set_duration
    \/ preceding_nongc_duration
    \/ total_duration
    \/ pause_end_time

SpecPause == InitPause /\ [][NextPause]_vars

\* ------------------------------------------------------------- SpecNio
\* Heap and direct buffers.  The memory of a direct buffer is reached by its
\* address, inside an access session that keeps the buffer from being freed.
DirectBuffer(p, l) == [ref |-> "direct", pos |-> p, lim |-> l]
NioBuffers == Buffers \cup {DirectBuffer(buf.pos, buf.lim) : buf \in Buffers}
NioDictionaryBuffers ==
    DictionaryBuffers \cup
        {DirectBuffer(buf.pos, buf.lim) : buf \in DictionaryBuffers}

\* buffer.isDirect()
isDirect(buf) == buf.ref = "direct"

\* NIO_ACCESS.acquireSession(buffer), NIO_ACCESS.releaseSession(buffer) and
\* the native call, as events; a buffer is named by its role in the call.
acquireSession(b) == <<[e |-> "acquireSession", buf |-> b]>>
releaseSession(b) == <<[e |-> "releaseSession", buf |-> b]>>
nativeEvent == <<[e |-> "native", buf |-> "none"]>>

\* A finally block that is skipped when the body throws.
tryFinally_onReturn(body, threw, handler) ==
    IF threw THEN body ELSE body \o handler

\* try { body } finally { handler }: the handler runs however the body ends.
tryFinally(body, threw, handler) == body \o handler

\* if (buffer.isDirect()) { acquireSession(buffer);
\*     try { body } finally { releaseSession(buffer); } } else { body }
withSession(b, isdirect, body, threw) ==
    IF isdirect
    THEN acquireSession(b) \o tryFinally(body, threw, releaseSession(b))
    ELSE body

\* The input's session taken inside the output's.
inflateEvents_outputFirst(in, outDirect, threw) ==
    withSession("output", outDirect,
                withSession("input", isDirect(in), nativeEvent, threw), threw)

\* What inflate does around its native call: the branch for the input view
\* in, with an output that is direct or not.
inflateEvents(in, outDirect, threw) ==
    withSession("input", isDirect(in),
                withSession("output", outDirect, nativeEvent, threw), threw)

\* The sessions held after the events evs, from those held before.
RECURSIVE Held(_, _)
Held(held, evs) ==
    IF evs = <<>> THEN held
    ELSE LET ev == Head(evs)
             top == Len(held)
         IN Held(IF ev.e = "acquireSession" THEN Append(held, ev.buf)
                 ELSE IF ev.e = "releaseSession" /\ top > 0 /\ held[top] = ev.buf
                      THEN SubSeq(held, 1, top - 1)
                      ELSE held,
                 Tail(evs))

\* The direct buffers among the input view in and the output of a call.
DirectOf(in, outDirect) ==
    (IF isDirect(in) THEN {"input"} ELSE {})
        \cup (IF outDirect THEN {"output"} ELSE {})

\* A call that has run the events evs on buffers of which those in d are
\* direct.
Ran(evs, d) ==
    /\ events' = evs
    /\ direct' = d
    /\ sessions' = Held(sessions, evs)

\* setInput(ByteBuffer input) with a heap or a direct buffer.
nioSetInputBuffer ==
    /\ Callable
    /\ \E buf \in NioBuffers :
        /\ input' = buf
        /\ inputArray' = NullArray
        /\ last' = Call("setInput(ByteBuffer)", "ok", 0, 0, 0, 0, FALSE,
                        buf.pos, buf.pos, FALSE)
        /\ UNCHANGED <<address, inputPos, inputLim, finished, pendingOutput,
                       needDict, bytesRead, bytesWritten, inputConsumed,
                       outputConsumed, envVars, concVars, restVars>>

\* inflate(byte[] output, int off, int len) on any input view.
nioInflateArray ==
    /\ Callable
    /\ \E output \in Arrays :
        \/ \E r \in BadRanges(output) :
            ThrowRange("inflate(byte[])", "AIOOBE", r)
        \/ \E off \in Offsets, len \in Lengths :
            /\ checkFromIndexSize(off, len, output.length)
            /\ IF ~ensureOpen(address)
               THEN ThrowRange("inflate(byte[])", "ISE", <<off, len>>)
               ELSE \E ans \in CodecAnswers(inputLenOf(input, inputPos, inputLim), len) :
                     /\ inflateNative(ans)
                     /\ feeds' = feeds + feedsOf(ans)
                     /\ Ran(inflateEvents(input, FALSE, ans.dfe),
                            DirectOf(input, FALSE))
                     /\ IF ans.dfe
                        THEN /\ inflateFailed(ans)
                             /\ last' = OnRange(InflateCall("inflate(byte[])", "DFE", len,
                                                            ans, 0, 0, 0),
                                                <<off, len>>)
                        ELSE LET pos0 == IF input.ref = "null" THEN inputPos ELSE input.pos
                                 read == resultRead(ans.result)
                                 written == resultWritten(ans.result)
                                 fin == IF resultFinished(ans.result) THEN TRUE ELSE finished
                             IN /\ finished' = fin
                                /\ pendingOutput' = (written = len /\ ~fin)
                                /\ needDict' = IF resultNeedDict(ans.result)
                                               THEN TRUE ELSE needDict
                                /\ IF input.ref # "null"
                                   THEN /\ input' = IF read > 0
                                                    THEN inputAt(input, pos0 + read)
                                                    ELSE input
                                        /\ inputPos' = inputPos
                                   ELSE /\ inputPos' = pos0 + read
                                        /\ input' = input
                                /\ bytesWritten' = inflateTotal(bytesWritten, written)
                                /\ bytesRead' = inflateTotal(bytesRead, read)
                                /\ last' = OnRange(InflateCall("inflate(byte[])", "ok",
                                                               len, ans, written, 0, 0),
                                                   <<off, len>>)
                                /\ UNCHANGED <<inputConsumed, outputConsumed>>
                     /\ UNCHANGED <<address, inputArray, inputLim, reachable, endCalls,
                                    concVars, roundVars, totalVars, pauseVars>>

\* inflate(ByteBuffer output) with a heap or a direct output, on any input
\* view; the first disjunct is a read-only output.
nioInflateBuffer ==
    /\ Callable
    /\ \/ Throw("inflate(ByteBuffer)", "ROBE", 0)
       \/ \E output \in NioBuffers :
           IF ~ensureOpen(address)
           THEN Throw("inflate(ByteBuffer)", "ISE", output.pos)
           ELSE LET outputPos == output.pos
                    outputRem == Max(output.lim - outputPos, 0)
                IN \E ans \in CodecAnswers(inputLenOf(input, inputPos, inputLim), outputRem) :
                    /\ inflateNative(ans)
                    /\ feeds' = feeds + feedsOf(ans)
                    /\ Ran(inflateEvents(input, isDirect(output), ans.dfe),
                           DirectOf(input, isDirect(output)))
                    /\ IF ans.dfe
                       THEN /\ inflateFailed(ans)
                            /\ last' = InflateCall("inflate(ByteBuffer)", "DFE", outputRem,
                                                   ans, 0, outputPos,
                                                   outputPosition(outputPos, ans.made))
                       ELSE LET pos0 == IF input.ref = "null" THEN inputPos ELSE input.pos
                                read == resultRead(ans.result)
                                written == resultWritten(ans.result)
                            IN /\ finished' = IF resultFinished(ans.result)
                                              THEN TRUE ELSE finished
                               /\ needDict' = IF resultNeedDict(ans.result)
                                              THEN TRUE ELSE needDict
                               /\ IF input.ref # "null"
                                  THEN /\ input' = inputAt(input, pos0 + read)
                                       /\ inputPos' = inputPos
                                  ELSE /\ inputPos' = pos0 + read
                                       /\ input' = input
                               /\ bytesWritten' = inflateTotal(bytesWritten, written)
                               /\ bytesRead' = inflateTotal(bytesRead, read)
                               /\ last' = InflateCall("inflate(ByteBuffer)", "ok", outputRem,
                                                      ans, written, outputPos,
                                                      outputPosition(outputPos, written))
                               /\ UNCHANGED <<pendingOutput, inputConsumed, outputConsumed>>
                    /\ UNCHANGED <<address, inputArray, inputLim, reachable, endCalls,
                                   concVars, roundVars, totalVars, pauseVars>>

\* setDictionary(ByteBuffer dictionary) with a heap or a direct buffer.
nioSetDictionaryBuffer ==
    /\ Callable
    /\ \E dictionary \in NioDictionaryBuffers :
        LET position == dictionary.pos
            remaining == dictionaryRemaining(position, dictionary.lim)
        IN IF ~ensureOpen(address)
           THEN /\ last' = DictionaryCall("ISE", position, position,
                                          dictionary.lim, 0, FALSE)
                /\ UNCHANGED <<sessVars, envVars, concVars, restVars>>
           ELSE \E ans \in DictionaryAnswers :
                 /\ NativeCall(address)
                 /\ Ran(withSession("dictionary", isDirect(dictionary),
                                    nativeEvent, ans # "ok"),
                        IF isDirect(dictionary) THEN {"dictionary"} ELSE {})
                 /\ needDict' = IF ans = "ok" THEN FALSE ELSE needDict
                 /\ last' = DictionaryCall(ans, position,
                                           IF ans = "ok" THEN position + remaining
                                           ELSE position,
                                           dictionary.lim, remaining, TRUE)
                 /\ UNCHANGED <<address, input, inputArray, inputPos, inputLim,
                                finished, pendingOutput, bytesRead, bytesWritten,
                                inputConsumed, outputConsumed, reachable, endCalls,
                                sumRead, sumWritten, concVars, roundVars, totalVars,
                                pauseVars, feeds>>

InitNio == Init

NextNio ==
    \/ setInputArray
    \/ nioSetInputBuffer
    \/ nioInflateArray
    \/ nioInflateBuffer
    \/ nioSetDictionaryBuffer
    \/ end
    \/ callReturns

SpecNio == InitNio /\ [][NextNio]_vars

\* ------------------------------------------------------------- claims
InflateOps == {"inflate(byte[])", "inflate(ByteBuffer)"}
Remaining == getRemainingOf(input, inputPos, inputLim)

\* C1: a decompress call that fails with a data-format error after the
\* codec reported c bytes consumed and p bytes produced has moved the input
\* position by exactly c, has added c to the bytes read and p to the bytes
\* written, and ends in that error; both input views, both inflate variants.
C1_FailureBookkeeping ==
    [][last'.outcome = "DFE" =>
        /\ last'.op \in InflateOps
        /\ Remaining' = Remaining - last'.used
        /\ bytesRead' = bytesRead + last'.used
        /\ bytesWritten' = bytesWritten + last'.made
        /\ (input.ref = "null" =>
                input' = input /\ inputPos' = inputPos + last'.used)
        /\ (input.ref # "null" =>
                input' = inputAt(input, input.pos + last'.used))]_vars

C1_Witness ==
    /\ last.op = "inflate(ByteBuffer)"
    /\ last.outcome = "DFE"
    /\ last.used > 0
    /\ last.made > 0
    /\ input.ref = "buffer"
    /\ bytesRead > last.used

\* C2: over any sequence of end(), close() and the cleanup hook the native
\* release runs exactly once, never with a zero or released handle, and an
\* end() or close() on a closed session returns normally and changes nothing.
C2_ReleaseOnce ==
    [][/\ endCalls' = (IF address' = 0 THEN 1 ELSE 0)
       /\ ~badHandleCall'
       /\ (last'.op \in {"end", "close"} =>
            /\ last'.outcome = "ok"
            /\ address' = 0
            /\ (address = 0 => UNCHANGED <<sessVars, envVars>>))
       /\ (last'.op = "run" => address' = 0)]_vars

C2_Witness ==
    /\ last.op = "close"
    /\ ~last.native
    /\ endCalls = 1
    /\ input.ref = "buffer"

\* The operations that call ensureOpen(), and those that do not.
CheckingOps ==
    InflateOps \cup {"setDictionary(byte[])", "setDictionary(ByteBuffer)",
                     "getAdler", "getBytesRead", "getBytesWritten",
                     "getTotalIn", "getTotalOut", "reset"}
UncheckedOps ==
    {"setInput(byte[])", "setInput(ByteBuffer)", "getRemaining", "needsInput",
     "needsDictionary", "finished", "hasPendingOutput"}
ArgumentErrors == {"AIOOBE", "ROBE"}

\* C3 as stated: on a closed session every operation other than end() and
\* close(), called with valid arguments, fails with illegal-state; setInput
\* and the accessors getRemaining, needsInput, needsDictionary and finished
\* included.
C3_AllFailWhenClosed ==
    [][(/\ address = 0
        /\ last'.op \in CheckingOps \cup UncheckedOps
        /\ last'.outcome \notin ArgumentErrors)
       => last'.outcome = "ISE"]_vars

\* C3 amended: on a closed session setDictionary, decompress, getAdler,
\* getBytesRead, getBytesWritten and reset, called with valid arguments, fail
\* with illegal-state, while setInput (both forms) and the accessors
\* getRemaining, needsInput, needsDictionary and finished do not look at the
\* handle: setInput stores the new input and the accessors answer from the
\* fields.
C3_ClosedSession ==
    [][address = 0 =>
        /\ (last'.op \in {"setDictionary(byte[])", "setDictionary(ByteBuffer)",
                          "getAdler", "getBytesRead", "getBytesWritten", "reset"}
                \cup InflateOps
            /\ last'.outcome \notin ArgumentErrors
            => last'.outcome = "ISE")
        /\ (last'.op \in UncheckedOps /\ last'.outcome \notin ArgumentErrors
            => last'.outcome = "ok")
        /\ (last'.op = "setInput(ByteBuffer)" /\ last'.outcome = "ok"
            => input'.ref = "buffer" /\ inputArray'.isNull)
        /\ (last'.op = "setInput(byte[])" /\ last'.outcome = "ok"
            => input'.ref = "null" /\ Remaining' = last'.len)
        /\ (last'.op = "getRemaining" => last'.retInt = Remaining)
        /\ (last'.op = "needsInput" => last'.retBool = (Remaining = 0))
        /\ (last'.op = "needsDictionary" => last'.retBool = needDict)
        /\ (last'.op = "finished" => last'.retBool = finished)]_vars

C3_Witness ==
    /\ address = 0
    /\ last.op = "getRemaining"
    /\ last.outcome = "ok"
    /\ last.retInt > 0

\* C4: on a closed session inflate and setDictionary (every variant, with
\* valid arguments), getAdler, getBytesRead, getBytesWritten, getTotalIn,
\* getTotalOut and reset throw IllegalStateException, and none of them calls
\* the native codec; no native call ever gets a zero or released handle.
C4_ClosedThrows ==
    [][/\ ~badHandleCall'
       /\ (/\ address = 0
           /\ last'.op \in CheckingOps
           /\ last'.outcome \notin ArgumentErrors)
          => (last'.outcome = "ISE" /\ ~last'.native)]_vars

C4_Witness ==
    /\ address = 0
    /\ last.op = "getAdler"
    /\ last.outcome = "ISE"

\* C5: a call that fails with illegal-state because the session is closed
\* changes nothing: the input view and its position, the three flags, both
\* totals and the position of the caller's dictionary or output buffer are
\* as before.
C5_IllegalStateFrame ==
    [][last'.outcome = "ISE" =>
        /\ address = 0
        /\ UNCHANGED sessVars
        /\ last'.argPos1 = last'.argPos0]_vars

C5_Witness ==
    /\ last.op = "reset"
    /\ last.outcome = "ISE"
    /\ input.ref = "buffer"
    /\ bytesRead > 0
    /\ finished

\* C8: across every step but reset() the two totals do not decrease, and
\* both are never negative (within the totals the model reaches; the fields
\* are signed 64-bit).
C8_TotalsMonotone ==
    [][/\ bytesRead' >= 0
       /\ bytesWritten' >= 0
       /\ (last'.op # "reset" =>
            bytesRead' >= bytesRead /\ bytesWritten' >= bytesWritten)]_vars

C8_Witness ==
    /\ last.outcome = "DFE"
    /\ last.used = 0
    /\ last.made = 0
    /\ bytesRead = MaxTotal
    /\ bytesWritten > 0

\* C9: a successful decompress call asked for len bytes returns w with
\* 0 <= w <= len; with r the input the codec consumed, getRemaining() is
\* smaller by r, the bytes read larger by r and the bytes written larger by
\* w; so the totals are the sums of what every decompress call since
\* construction or the last reset() consumed and produced.
C9_SuccessBookkeeping ==
    [][/\ bytesRead' = sumRead'
       /\ bytesWritten' = sumWritten'
       /\ (last'.op \in InflateOps /\ last'.outcome = "ok") =>
            /\ 0 <= last'.retInt
            /\ last'.retInt <= last'.len
            /\ last'.retInt = last'.made
            /\ Remaining' = Remaining - last'.used
            /\ bytesRead' = bytesRead + last'.used
            /\ bytesWritten' = bytesWritten + last'.retInt]_vars

C9_Witness ==
    /\ last.op = "inflate(byte[])"
    /\ last.outcome = "ok"
    /\ last.len = MaxLen
    /\ last.retInt = 1
    /\ last.used = 1
    /\ bytesRead = 2
    /\ bytesWritten = 2

\* C10: in every reachable state exactly one input view is active: the
\* buffer view is null exactly when the array view is not.
C10_OneInputView ==
    (input.ref = "null") <=> ~inputArray.isNull

C10_Witness ==
    /\ input.ref = "buffer"
    /\ inputArray.isNull
    /\ inputLim > inputPos
    /\ address = 0

\* Where a thread is about to read or write a field of the session.
FieldPcs == {"siA_1", "siA_2", "siB_1", "sd_1", "gr_1", "gr_2", "ni_1", "ni_2",
             "inflA_1", "inflB_1", "infl_2", "inflF_2", "infl_3", "rs_1",
             "gbr_1", "end_1", "end_2", "hpo"}

\* Where a thread stands once a method has checked its arguments.
CheckedPcs == {"siA_enter", "siB_enter", "sd_enter", "inflA_enter", "inflB_enter"}

\* Thread t takes a step that reads or writes a field of the session.
FieldStep(t) == pc[t] \in FieldPcs /\ pc'[t] # pc[t]

\* Thread t takes the step in which a method checks its arguments.
CheckStep(t) == pc[t] = "idle" /\ pc'[t] \in CheckedPcs

\* C6 as stated: every operation, the pending-output accessor included,
\* reads and writes the session's state and checks its arguments only while
\* it holds the lock.
C6_AllUnderLock ==
    [][\A t \in Threads : (FieldStep(t) \/ CheckStep(t)) => lock = t]_vars

\* C6: every operation but hasPendingOutput() reads and writes the
\* session's fields only while it holds the lock, and no other thread is
\* inside a body at that time; hasPendingOutput() reads without the lock
\* and writes nothing; the checks of the arguments run before the lock is
\* taken and write nothing.
C6_FieldsUnderLock ==
    [][\A t \in Threads :
        /\ (FieldStep(t) /\ pc[t] # "hpo") =>
              /\ lock = t
              /\ \A u \in (Threads \cup {Cleaner}) \ {t} :
                    pc[u] \notin (FieldPcs \cup {"run_1"}) \ {"hpo"}
        /\ (FieldStep(t) /\ pc[t] = "hpo") =>
              /\ lock # t
              /\ UNCHANGED sessVars
        /\ CheckStep(t) =>
              /\ lock # t
              /\ UNCHANGED sessVars]_vars

\* hasPendingOutput() is about to read while inflate of the other thread,
\* which holds the lock, is between its reads and its writes of the totals.
C6_Witness ==
    \E t \in Threads, u \in Threads :
        /\ pc[t] = "infl_3"
        /\ lock = t
        /\ pc[u] = "hpo"

\* C7: getRemaining() returns what the remaining input was at a moment
\* between two complete calls within the time of the call, needsInput()
\* returns whether it was zero at such a moment, and between complete calls
\* the totals are the sums of what the codec reported: no update is lost.
C7_Linearizable ==
    [][/\ \A t \in Threads :
            /\ (pc[t] = "gr_2" /\ pc'[t] = "idle") =>
                  getRemainingResult(t) \in seen[t]
            /\ (pc[t] = "ni_2" /\ pc'[t] = "idle") =>
                  \E v \in seen[t] : needsInputResult(t) = (v = 0)
       /\ Stable' => (bytesRead' = sumRead' /\ bytesWritten' = sumWritten')]_vars

\* getRemaining() holds the lock and is about to return, after a call of
\* the other thread completed and changed the remaining input while it
\* waited, and the codec has consumed input.
C7_Witness ==
    \E t \in Threads :
        /\ pc[t] = "gr_2"
        /\ lock = t
        /\ Cardinality(seen[t]) >= 2
        /\ sumRead > 0

\* C11: needsInput() is true right after construction, and in every state
\* needsInput() is true exactly when getRemaining() is 0, whichever input
\* view is active; the two accessors return those values.
C11_NeedsInputIffEmpty ==
    /\ needsInputOf(input, inputPos, inputLim) = (Remaining = 0)
    /\ (last.op = "new" => needsInputOf(input, inputPos, inputLim))
    /\ (last.op = "needsInput" => last.retBool = (Remaining = 0))
    /\ (last.op = "getRemaining" =>
            (last.retInt = 0) = needsInputOf(input, inputPos, inputLim))

\* needsInput() has answered true on a buffer view that inflate has
\* consumed to its limit.
C11_Witness ==
    /\ last.op = "needsInput"
    /\ last.retBool
    /\ input.ref = "buffer"
    /\ input.pos > 0
    /\ bytesRead > 0

\* C12: reset() on an open session, from any state, calls the codec's reset
\* with the live handle and leaves finished and needsDictionary() false,
\* both totals 0, needsInput() true and getRemaining() 0; on a closed
\* session it throws IllegalStateException.
C12_ResetPostcondition ==
    [][last'.op = "reset" =>
        IF address = 0
        THEN last'.outcome = "ISE"
        ELSE /\ last'.outcome = "ok"
             /\ last'.native
             /\ ~badHandleCall'
             /\ address' = address
             /\ ~finished'
             /\ ~needDict'
             /\ bytesRead' = 0
             /\ bytesWritten' = 0
             /\ needsInputOf(input', inputPos', inputLim')
             /\ Remaining' = 0]_vars

\* reset() has succeeded on a session whose array range still had input
\* left and whose pendingOutput flag was set.
C12_Witness ==
    /\ last.op = "reset"
    /\ last.outcome = "ok"
    /\ inputLim > inputPos
    /\ pendingOutput

\* C13: after every decompress call that returns, of either inflate variant,
\* pendingOutput is true if the call filled the whole output length it was
\* asked for and the stream is not finished, and false otherwise.
C13_PendingOutputSet ==
    [][(last'.op \in InflateOps /\ last'.outcome = "ok") =>
        pendingOutput' = (last'.retInt = last'.len /\ ~finished')]_vars

SetDictionaryOps == {"setDictionary(byte[])", "setDictionary(ByteBuffer)"}

\* C14 as stated: needsDictionary() is true exactly when the codec
\* signalled a dictionary on the most recent decompress call: a decompress
\* call that returns leaves the flag equal to its signal, and no call but
\* decompress (and reset) changes the flag.
C14_DictOnLastInflate ==
    [][/\ (last'.op \in InflateOps /\ last'.outcome = "ok") =>
            needDict' = last'.dict
       /\ (last'.op \notin InflateOps \cup {"reset"}) =>
            needDict' = needDict]_vars

\* C14 amended: needsDictionary() is true exactly when the codec signalled
\* a dictionary on some decompress call since construction, the last
\* reset() and the last setDictionary that succeeded: decompress sets the
\* flag on the signal and never clears it, a setDictionary or reset() that
\* succeeds clears it, and nothing else changes it.
C14_DictSticky ==
    [][/\ last'.op \in InflateOps => needDict' = (needDict \/ last'.dict)
       /\ (last'.op \in SetDictionaryOps \cup {"reset"} /\ last'.outcome = "ok") =>
            ~needDict'
       /\ (last'.op \in SetDictionaryOps \cup {"reset"} /\ last'.outcome # "ok") =>
            needDict' = needDict
       /\ (last'.op \notin InflateOps \cup SetDictionaryOps \cup {"reset"}) =>
            needDict' = needDict
       /\ last'.op = "needsDictionary" => last'.retBool = needDict]_vars

\* A decompress call on which the codec signalled no dictionary has
\* returned, and needsDictionary() is still true from an earlier call.
C14_Witness ==
    /\ last.op \in InflateOps
    /\ last.outcome = "ok"
    /\ ~last.dict
    /\ last.made > 0
    /\ needDict

C16_SetDictionary ==
    [][/\ (last'.op \in SetDictionaryOps /\ last'.outcome = "ok") =>
            (address # 0 /\ last'.native /\ ~needDict')
       /\ (last'.op \in SetDictionaryOps /\ last'.outcome # "ok") =>
            (/\ last'.outcome \in {"ISE", "AIOOBE", "IAE"}
             /\ needDict' = needDict)
       /\ (last'.op \in InflateOps /\ last'.outcome \in {"ok", "DFE"}) =>
            last'.native
       /\ (last'.op \in InflateOps /\ address # 0) =>
            last'.outcome \in {"ok", "DFE"} \cup ArgumentErrors]_vars

\* setDictionary(ByteBuffer) has succeeded on a session that had consumed
\* input and asked for a dictionary before.
C16_Witness ==
    /\ last.op = "setDictionary(ByteBuffer)"
    /\ last.outcome = "ok"
    /\ last.argPos1 > last.argPos0
    /\ bytesRead > 0
    /\ ~needDict

\* C17: when setDictionary(ByteBuffer) returns normally the buffer's
\* position is its limit and the codec was handed exactly the bytes from the
\* old position to the limit; when it throws, the position is as before.
C17_DictionaryBufferConsumed ==
    [][last'.op = "setDictionary(ByteBuffer)" =>
        IF last'.outcome = "ok"
        THEN /\ last'.native
             /\ last'.argPos1 = last'.argLim
             /\ last'.used = last'.argLim - last'.argPos0
        ELSE last'.argPos1 = last'.argPos0]_vars

\* setDictionary(ByteBuffer) has taken a buffer that began past its start
\* and ended before the largest limit.
C17_Witness ==
    /\ last.op = "setDictionary(ByteBuffer)"
    /\ last.outcome = "ok"
    /\ last.argPos0 > 0
    /\ last.argLim > last.argPos0
    /\ last.argLim = last.argPos1

\* C18: finished() is true exactly when some decompress call since
\* construction or the last reset() got the end-of-stream flag from the
\* codec: decompress sets it on the flag, only a reset() that succeeds
\* clears it, no other call changes it; and while it is true an open
\* session still answers getBytesRead(), getBytesWritten() and reset().
C18_FinishedSticky ==
    [][/\ last'.op \in InflateOps => finished' = (finished \/ last'.fin)
       /\ last'.op = "reset" => finished' = (finished /\ last'.outcome # "ok")
       /\ last'.op \notin InflateOps \cup {"reset"} => finished' = finished
       /\ last'.op = "finished" => last'.retBool = finished
       /\ (finished /\ address # 0) =>
            /\ (last'.op \in {"getBytesRead", "getBytesWritten", "reset"} =>
                    last'.outcome = "ok")
            /\ (last'.op = "getBytesRead" => last'.retInt = bytesRead)
            /\ (last'.op = "getBytesWritten" => last'.retInt = bytesWritten)]_vars

\* getBytesWritten() has answered on an open session that is finished and
\* has been given new input since.
C18_Witness ==
    /\ last.op = "getBytesWritten"
    /\ last.outcome = "ok"
    /\ last.retInt > 0
    /\ finished
    /\ Remaining > 0
    /\ address # 0

\* C19 as stated: whenever a decompress call returns 0, needsInput() or
\* needsDictionary() is true right after it.
C19_ZeroMeansInputOrDictionary ==
    [][(last'.op \in InflateOps /\ last'.outcome = "ok" /\ last'.retInt = 0) =>
        (needsInputOf(input', inputPos', inputLim') \/ needDict')]_vars

\* C19 amended: a decompress call returns what the codec produced, so 0
\* when it produced nothing and always 0 for an output length of 0;
\* afterwards needsDictionary() is true if the codec signalled a dictionary
\* and needsInput() is true exactly if the call consumed all the input that
\* remained.  Neither need be true after a return of 0.
C19_ZeroReturn ==
    [][(last'.op \in InflateOps /\ last'.outcome = "ok") =>
        /\ last'.retInt = last'.made
        /\ (last'.len = 0 => last'.retInt = 0)
        /\ (last'.dict => (last'.retInt = 0 /\ needDict'))
        /\ needsInputOf(input', inputPos', inputLim') = (last'.used = Remaining)]_vars

\* A decompress call asked for output has returned 0 on a finished stream
\* with input left over: neither needsInput() nor needsDictionary() is true.
C19_Witness ==
    /\ last.op \in InflateOps
    /\ last.outcome = "ok"
    /\ last.retInt = 0
    /\ last.len > 0
    /\ finished
    /\ ~needsInputOf(input, inputPos, inputLim)
    /\ ~needDict

ArrayRangeOps == {"setInput(byte[])", "setDictionary(byte[])", "inflate(byte[])"}

\* C20: setInput, setDictionary and decompress on a range of an array with
\* off < 0, len < 0 or off + len beyond the array's length throw the
\* out-of-bounds exception, on an open and on a closed session, and change
\* nothing: the input view, its position and limit, the flags and the
\* totals are as before and the codec is not called; a range inside the
\* array never throws it.
C20_RangeChecked ==
    [][last'.op \in ArrayRangeOps =>
        LET off == last'.argOff
            len == last'.len
            outside == off < 0 \/ len < 0 \/ off + len > MaxLen
        IN /\ (last'.outcome = "AIOOBE") = outside
           /\ outside =>
                /\ UNCHANGED <<sessVars, envVars>>
                /\ ~last'.native]_vars

\* inflate on a range that ends past the array has thrown, on a session
\* with input left and output produced before.
C20_Witness ==
    /\ last.op = "inflate(byte[])"
    /\ last.outcome = "AIOOBE"
    /\ last.argOff > 0
    /\ last.len > 0
    /\ last.argOff + last.len > MaxLen
    /\ Remaining > 0
    /\ bytesWritten > 0

ReleasingOps == {"end", "close", "run"}

\* C21: the handle is the non-zero address init returned as long as the
\* native end has not run and zero from then on; reset() and every call
\* other than end(), close() and the cleaning action leave it as it is,
\* those three leave it zero, and once zero it stays zero.
C21_HandleLifecycle ==
    [][/\ (address' # 0) = (endCalls' = 0)
       /\ address' \in {0, Handle}
       /\ (address = 0 => address' = 0)
       /\ (last'.op = "reset" => address' = address)
       /\ (last'.op \in ReleasingOps => address' = 0)
       /\ (last'.op \notin ReleasingOps => address' = address)]_vars

\* setInput has stored new input in a session closed by close(), and the
\* handle is still zero.
C21_Witness ==
    /\ last.op = "setInput(byte[])"
    /\ last.outcome = "ok"
    /\ Remaining > 0
    /\ address = 0
    /\ endCalls = 1
    /\ reachable

C23_CallsComplete ==
    \A t \in Threads \cup {Cleaner} : (pc[t] # "idle") ~> (pc[t] = "idle")

\* end() has entered the monitor a second time and released the handle
\* while the other thread waits for the monitor.
C23_Witness ==
    /\ pc[1] = "end_2"
    /\ lock = 1
    /\ address = 0
    /\ pc[2] \in EnterPcs
    /\ Synchronized(pc[2])

\* C24: inflate(ByteBuffer) leaves the output buffer's position advanced by
\* exactly the bytes the call produced: by the count it returns when it
\* succeeds, by the bytes produced before the error when it ends in a
\* data-format error, and by nothing when it fails before the codec runs.
C24_OutputAdvanced ==
    [][last'.op = "inflate(ByteBuffer)" =>
        /\ (last'.outcome = "ok" =>
                /\ last'.argPos1 = last'.argPos0 + last'.retInt
                /\ last'.retInt = last'.made
                /\ bytesWritten' = bytesWritten + last'.retInt)
        /\ (last'.outcome = "DFE" =>
                /\ last'.argPos1 = last'.argPos0 + last'.made
                /\ bytesWritten' = bytesWritten + last'.made)
        /\ (last'.outcome \notin {"ok", "DFE"} =>
                /\ last'.argPos1 = last'.argPos0
                /\ bytesWritten' = bytesWritten)
        /\ last'.argPos1 <= last'.argPos0 + last'.len]_vars

\* A data-format error after the codec produced bytes into an output buffer
\* whose position was not 0.
C24_Witness ==
    /\ last.op = "inflate(ByteBuffer)"
    /\ last.outcome = "DFE"
    /\ last.made > 0
    /\ last.argPos0 > 0
    /\ last.argPos1 = last.argPos0 + last.made

Low32Of(r) ==
    IF r >= 0 THEN BitsOf(r, 0)
    ELSE BitsOf((r + Pow2(30)) + Pow2(30), 0) \cup {31}

\* C26: getTotalIn() and getTotalOut() return the low 32 bits of the 64-bit
\* total of bytes read and written, as a signed 32-bit number: the total
\* itself while it is at most Integer.MAX_VALUE, a negative number when bit
\* 31 of the total is set; the totals themselves are left alone.
C26_TotalsTruncated ==
    [][last'.op \in {"getTotalIn", "getTotalOut"} =>
        LET t == IF last'.op = "getTotalIn" THEN bytesReadBits ELSE bytesWrittenBits
            r == last'.retInt
        IN /\ last'.outcome = "ok"
           /\ Low32Of(r) = {b \in t : b <= 31}
           /\ (t \subseteq 0..30 => r = SumPow2(t, 0))
           /\ (31 \in t <=> r < 0)
           /\ UNCHANGED totalVars]_vars

\* getTotalIn() has answered a negative number for a total above 2^32 that
\* inflate calls have added to.
C26_Witness ==
    /\ last.op = "getTotalIn"
    /\ last.retInt < 0
    /\ 32 \in bytesReadBits
    /\ 31 \in bytesReadBits
    /\ sumRead > 0

\* C27: for a GcPauseTimeInfo constructed from non-negative (s, d, e) and
\* not changed by a setter since, pause_end_time() is s + d,
\* preceding_nongc_duration() is s - e and total_duration() is (s - e) + d,
\* in double arithmetic and in that order.
C27_DerivedFromArguments ==
    (/\ object = "live"
     /\ ~mutated
     /\ \A i \in 1..3 : dge0(given[i]))
    => /\ (pauseCall.op = "pause_end_time" =>
                pauseCall.ret = dadd(given[1], given[2]))
       /\ (pauseCall.op = "preceding_nongc_duration" =>
                pauseCall.ret = dsub(given[1], given[3]))
       /\ (pauseCall.op = "total_duration" =>
                pauseCall.ret = dadd(dsub(given[1], given[3]), given[2]))

\* total_duration() of an object built from values for which the order of
\* the two operations shows in the result.
C27_Witness ==
    /\ object = "live"
    /\ ~mutated
    /\ given = <<4, 1, 1>>
    /\ pauseCall.op = "total_duration"
    /\ pauseCall.ret = 4
    /\ dsub(dadd(4, 1), 1) = 3

C29_SettersUnchecked ==
    [][/\ (pauseCall'.op = "set_start_time" =>
                /\ _start_time' = pauseCall'.arg
                /\ UNCHANGED <<_duration, _end_of_last_pause>>)
       /\ (pauseCall'.op = "set_duration" =>
                /\ _duration' = pauseCall'.arg
                /\ UNCHANGED <<_start_time, _end_of_last_pause>>)
       /\ (pauseCall'.op = "set_end_of_last_pause" =>
                /\ _end_of_last_pause' = pauseCall'.arg
                /\ UNCHANGED <<_start_time, _duration>>)
       /\ (pauseCall'.op \in {"set_start_time", "set_duration", "set_end_of_last_pause"} =>
                /\ pauseCall'.ret = pauseCall'.arg
                /\ object' = "live")
       /\ (pauseCall'.op = "start_time" => pauseCall'.ret = _start_time')
       /\ (pauseCall'.op = "duration" => pauseCall'.ret = _duration')
       /\ (pauseCall'.op = "end_of_last_pause" =>
                pauseCall'.ret = _end_of_last_pause')
       /\ (pauseCall'.op = "preceding_nongc_duration" =>
                pauseCall'.ret = dsub(_start_time', _end_of_last_pause'))
       /\ (pauseCall'.op = "total_duration" =>
                pauseCall'.ret = dadd(dsub(_start_time', _end_of_last_pause'), _duration'))
       /\ (pauseCall'.op = "pause_end_time" =>
                pauseCall'.ret = dadd(_start_time', _duration'))]_vars

\* In a build that defines ASSERT, preceding_nongc_duration() is negative
\* after setters stored a negative start time.
C29_Witness ==
    /\ debugBuild
    /\ mutated
    /\ object = "live"
    /\ dlt0(_start_time)
    /\ pauseCall.op = "preceding_nongc_duration"
    /\ dlt0(pauseCall.ret)

\* C30 as stated: after every end() or close() the session needs input and
\* has none remaining.
C30_InputCleared ==
    [][last'.op \in {"end", "close"} =>
        /\ needsInputOf(input', inputPos', inputLim')
        /\ Remaining' = 0]_vars

\* C30: an end() or close() that finds the session open leaves the empty
\* default buffer as its input, so that needsInput() is true and
\* getRemaining() is 0; one that finds the session closed already changes
\* nothing, the input passed to setInput since the first close included.
C30_EndClearsInput ==
    [][last'.op \in {"end", "close"} =>
        IF address # 0
        THEN /\ input' = defaultBuf
             /\ inputArray' = NullArray
             /\ needsInputOf(input', inputPos', inputLim')
             /\ Remaining' = 0
        ELSE UNCHANGED <<sessVars, envVars>>]_vars

\* A second end() has returned with the input of a setInput between the
\* two still there.
C30_Witness ==
    /\ last.op = "end"
    /\ last.outcome = "ok"
    /\ address = 0
    /\ endCalls = 1
    /\ Remaining > 0
    /\ ~needsInputOf(input, inputPos, inputLim)

\* Where a thread is about to call ensureOpen() and then the codec.
NativePcs == {"inflA_1", "inflB_1", "sd_1", "rs_1"}

\* Where a thread is inside end() or the cleaning action, about to release
\* the handle or having just released it.
ReleasePcs == {"end_1", "end_2", "run_1"}

\* Thread t takes the step of a body that calls the codec if the session
\* is open.
NativeStep(t) == pc[t] \in NativePcs /\ pc'[t] # pc[t]

SetInputOps == {"setInput(byte[])", "setInput(ByteBuffer)"}

\* C32: setInput, in either form, can be called in any state between two
\* calls, closed session included, and changes only the input source: it
\* never ends in an illegal-state error, it leaves finished, needsDictionary,
\* pendingOutput, the bytes read, the bytes written and the native handle as
\* they were, and it does not call the codec.
C32_SetInputFrame ==
    [][last'.op \in SetInputOps =>
        /\ last'.outcome \in {"ok", "AIOOBE"}
        /\ (last'.op = "setInput(ByteBuffer)" => last'.outcome = "ok")
        /\ ~last'.native
        /\ UNCHANGED <<address, finished, needDict, pendingOutput,
                       bytesRead, bytesWritten, envVars>>
        /\ (last'.outcome # "ok" =>
               UNCHANGED <<input, inputArray, inputPos, inputLim>>)]_vars

\* setInput has succeeded on a session whose stream is finished, with output
\* pending and bytes counted, after the session was closed.
C32_Witness ==
    /\ last.op \in SetInputOps
    /\ last.outcome = "ok"
    /\ finished /\ pendingOutput /\ bytesRead > 0 /\ bytesWritten > 0
    /\ address = 0 /\ endCalls = 1

\* C33: the last setInput wins.  After setInput(data, off, len) the unconsumed
\* input is len bytes; after setInput(buffer) it is the buffer's remaining
\* bytes, limit minus position; whatever view was installed before and
\* however much of it was left.  getRemaining returns that amount.
C33_LastSetInputWins ==
    [][/\ (last'.op = "setInput(byte[])" /\ last'.outcome = "ok") =>
            /\ Remaining' = last'.len
            /\ inputPos' = last'.argOff
       /\ (last'.op = "setInput(ByteBuffer)" /\ last'.outcome = "ok") =>
            \E buf \in Buffers :
                /\ buf.pos = last'.argPos0
                /\ input' = buf
                /\ Remaining' = buf.lim - buf.pos
       /\ last'.op = "getRemaining" => last'.retInt = Remaining]_vars

\* setInput(data, 1, 1) has replaced an input of which the codec had already
\* consumed a part.
C33_Witness ==
    /\ last.op = "setInput(byte[])"
    /\ last.outcome = "ok"
    /\ last.len = 1
    /\ last.argOff = 1
    /\ bytesRead > 0
    /\ Remaining = 1

\* C34: a decompress call that fails with a data-format error leaves
\* finished, needsDictionary and pendingOutput as they were before the call,
\* whatever the codec signalled; of the session only the input position and
\* the two totals may differ, and of the caller's output buffer only its
\* position.
C34_FailureFrame ==
    [][last'.outcome = "DFE" =>
        /\ UNCHANGED <<finished, needDict, pendingOutput>>
        /\ UNCHANGED <<address, inputArray, inputLim, reachable, endCalls>>
        /\ input'.ref = input.ref
        /\ input'.lim = input.lim
        /\ (input.ref = "null" => input' = input)
        /\ (input.ref # "null" => inputPos' = inputPos)
        /\ (last'.op = "inflate(byte[])" => last'.argPos1 = last'.argPos0)]_vars

\* inflate(byte[]) has failed with output pending from the call before,
\* after the codec filled less than the space offered: a successful call
\* would have cleared pendingOutput.
C34_Witness ==
    /\ last.op = "inflate(byte[])"
    /\ last.outcome = "DFE"
    /\ pendingOutput
    /\ last.made < last.len
    /\ bytesRead > 0

\* The array view is the active input.
ArrayViewActive == input.ref = "null"

\* The unconsumed input is never negative, and the array view lies within
\* its array.
InputInRange ==
    /\ Remaining >= 0
    /\ ArrayViewActive =>
          /\ ~inputArray.isNull
          /\ 0 <= inputPos
          /\ inputPos <= inputLim
          /\ inputLim <= inputArray.length

\* C36: with a codec that never reports more input consumed than it was
\* offered, getRemaining() is never negative, and while the array view is
\* active offset <= inputPos <= inputLim <= the array's length: setInput
\* puts inputPos at the offset and inputLim at offset + len within the array,
\* and from then on inputPos only grows, inputLim stays, and inputPos never
\* passes inputLim.
C36_InputPositionBounds ==
    [][/\ InputInRange'
       /\ (last'.op = "setInput(byte[])" /\ last'.outcome = "ok") =>
             /\ ArrayViewActive'
             /\ inputPos' = last'.argOff
             /\ inputLim' = last'.argOff + last'.len
       /\ (ArrayViewActive /\ ArrayViewActive' /\ last'.op # "setInput(byte[])") =>
             /\ inputPos' >= inputPos
             /\ inputLim' = inputLim
             /\ inputArray' = inputArray
       /\ last'.op = "getRemaining" => last'.retInt >= 0]_vars

\* The codec has consumed the array view to its end, which is the end of the
\* array.
C36_Witness ==
    /\ ArrayViewActive
    /\ last.op \in InflateOps
    /\ last.used > 0
    /\ inputPos = inputLim
    /\ inputLim = inputArray.length
    /\ Remaining = 0

\* What the queries of a session return.
Observable ==
    [needsInput |-> needsInputOf(input, inputPos, inputLim),
     getRemaining |-> getRemainingOf(input, inputPos, inputLim),
     needsDictionary |-> needDict,
     finished |-> finished,
     hasPendingOutput |-> pendingOutput,
     getBytesRead |-> bytesRead,
     getBytesWritten |-> bytesWritten]

\* What they return on a session just constructed.
FreshObservable ==
    [needsInput |-> needsInputOf(defaultBuf, 0, 0),
     getRemaining |-> getRemainingOf(defaultBuf, 0, 0),
     needsDictionary |-> FALSE,
     finished |-> FALSE,
     hasPendingOutput |-> FALSE,
     getBytesRead |-> 0,
     getBytesWritten |-> 0]

\* C37: after reset() on an open session every query (needsInput,
\* getRemaining, needsDictionary, finished, hasPendingOutput, getBytesRead,
\* getBytesWritten) returns what it returns on a session just constructed,
\* whatever preceded the reset.
C37_ResetLikeFresh ==
    [][(last'.op = "reset" /\ last'.outcome = "ok") =>
            Observable' = FreshObservable]_vars

\* All queries but hasPendingOutput return after reset() what they return on
\* a new session.
C37_ResetButPendingOutput ==
    [][(last'.op = "reset" /\ last'.outcome = "ok") =>
            /\ [Observable' EXCEPT !.hasPendingOutput = FALSE] = FreshObservable
            /\ pendingOutput' = pendingOutput]_vars

\* C38: no retries.  A decompress call on an open session, with arguments
\* that pass its checks, calls the codec's inflate exactly once, whether it
\* returns 0, returns output or fails with a data-format error, and the
\* codec's own account grows by that one answer; a call that is rejected
\* calls it not at all, and no other operation calls it.
C38_OneFeedPerCall ==
    [][/\ (last'.op \in InflateOps /\ last'.outcome \in {"ok", "DFE"}) =>
            /\ address # 0
            /\ feeds' = 1
            /\ last'.native
            /\ sumRead' = sumRead + last'.used
            /\ sumWritten' = sumWritten + last'.made
       /\ (last'.op \in InflateOps /\ address # 0) =>
            \/ last'.outcome \in {"ok", "DFE"}
            \/ last'.outcome \in ArgumentErrors /\ feeds' = 0
       /\ (last'.op \notin InflateOps \/ last'.outcome \notin {"ok", "DFE"}) =>
            feeds' = 0]_vars

\* inflate has returned 0 without consuming anything although input was
\* left, after one call of the codec.
C38_Witness ==
    /\ last.op \in InflateOps
    /\ last.outcome = "ok"
    /\ last.retInt = 0
    /\ last.used = 0
    /\ Remaining > 0
    /\ ~finished
    /\ ~needDict
    /\ feeds = 1

\* C40: inputConsumed and outputConsumed are folded into the totals exactly
\* once.  A decompress call that fails moves the input position and both
\* totals by the amounts the codec stored for this call, and leaves both
\* fields 0; they are 0 between any two calls, so no amount of an earlier
\* failure is added again, and the totals stay the sums of what the codec
\* reported.
C40_ConsumedFoldedOnce ==
    [][/\ inputConsumed' = 0
       /\ outputConsumed' = 0
       /\ last'.outcome = "DFE" =>
            /\ (IF input.ref = "null" THEN inputPos' - inputPos
                ELSE input'.pos - input.pos) = last'.used
            /\ bytesRead' - bytesRead = last'.used
            /\ bytesWritten' - bytesWritten = last'.made
            /\ bytesRead' = sumRead'
            /\ bytesWritten' = sumWritten']_vars

\* A decompress call has failed after the codec consumed and produced
\* something, on a session that had counted bytes before.
C40_Witness ==
    /\ last.op = "inflate(byte[])"
    /\ last.outcome = "DFE"
    /\ last.used > 0
    /\ last.made > 0
    /\ bytesRead > last.used
    /\ bytesWritten > last.made
    /\ inputConsumed = 0
    /\ outputConsumed = 0

\* The three fields of a GcPauseTimeInfo, and the field each setter owns.
PauseFields == <<_start_time, _duration, _end_of_last_pause>>
SetterField ==
    [set_start_time |-> 1, set_duration |-> 2, set_end_of_last_pause |-> 3]
PauseQueries ==
    {"start_time", "duration", "end_of_last_pause",
     "preceding_nongc_duration", "total_duration", "pause_end_time"}

\* C39: a setter changes only its own field and returns the value it stored:
\* after the call the three fields are the old ones with the setter's field
\* replaced by the returned value, which is the argument; a getter or a
\* derived query leaves all three fields as they were.  Neither touches
\* anything else of the object.
C39_SetterFrame ==
    [][/\ pauseCall'.op \in DOMAIN SetterField =>
            /\ PauseFields' =
                  [PauseFields EXCEPT ![SetterField[pauseCall'.op]] = pauseCall'.ret]
            /\ pauseCall'.ret = pauseCall'.arg
            /\ UNCHANGED <<object, debugBuild>>
       /\ pauseCall'.op \in PauseQueries =>
            UNCHANGED <<PauseFields, object, debugBuild, given, mutated>>]_vars

\* set_duration has stored a value that differs from both other fields, which
\* differ from each other.
C39_Witness ==
    /\ object = "live"
    /\ pauseCall.op = "set_duration"
    /\ pauseCall.ret = _duration
    /\ _start_time # _duration
    /\ _end_of_last_pause # _duration
    /\ _start_time # _end_of_last_pause

NioOps == InflateOps \cup {"setDictionary(ByteBuffer)"}

\* The places in evs where the event e on buffer b stands.
EventsAt(evs, e, b) == {i \in 1..Len(evs) : evs[i].e = e /\ evs[i].buf = b}
NativeAt(evs) == {i \in 1..Len(evs) : evs[i].e = "native"}

\* C35: every access session acquired during inflate or setDictionary is
\* released before the call returns or throws.  After a call of either
\* kind, however it ended, no session is held; each direct buffer of a call
\* that reached the codec was acquired once before the native call and
\* released once after it, and nothing was acquired for the other buffers or
\* by a call that was rejected; with a direct input and a direct output the
\* order is acquire input, acquire output, native call, release output,
\* release input.
C35_SessionsReleased ==
    [][last'.op \in NioOps =>
        /\ sessions' = <<>>
        /\ \A b \in {"input", "output", "dictionary"} :
              LET acq == EventsAt(events', "acquireSession", b)
                  rel == EventsAt(events', "releaseSession", b)
              IN /\ Cardinality(acq) = Cardinality(rel)
                 /\ Cardinality(acq) = IF b \in direct' THEN 1 ELSE 0
                 /\ \A i \in acq, n \in NativeAt(events'), j \in rel : i < n /\ n < j
        /\ Cardinality(NativeAt(events')) = IF last'.native THEN 1 ELSE 0
        /\ (~last'.native => direct' = {})
        /\ (direct' = {"input", "output"} =>
              events' = acquireSession("input") \o acquireSession("output")
                          \o nativeEvent
                          \o releaseSession("output") \o releaseSession("input"))]_vars

\* inflate(ByteBuffer) has failed with a data-format error with a direct
\* input and a direct output, after both sessions were acquired.
C35_Witness ==
    /\ last.op = "inflate(ByteBuffer)"
    /\ last.outcome = "DFE"
    /\ direct = {"input", "output"}
    /\ Len(events) = 5
    /\ sessions = <<>>

\* setDictionary(ByteBuffer) has been rejected by the codec with a direct
\* dictionary.
C35_WitnessDictionary ==
    /\ last.op = "setDictionary(ByteBuffer)"
    /\ last.outcome = "IAE"
    /\ direct = {"dictionary"}
    /\ sessions = <<>>

====
